---- MODULE Spec2Model ----
(***************************************************************************)
(* Model of src/bot.py: the access store (AccessManager, paid_users.json), *)
(* the access middleware, the aiogram message handlers in registration     *)
(* order, the per-user FSM storage and the in-memory user_progress dict.   *)
(*                                                                         *)
(* One incoming Telegram message is one step: middleware, dispatch to the  *)
(* first handler whose filters match, and the whole body of that handler.  *)
(***************************************************************************)
EXTENDS Integers, Sequences, FiniteSets, TLC

VARIABLES
    admin_ids,      \* ACCESS_CONFIG["admin_ids"]
    paid_users,     \* access_manager.paid_users, in dict insertion order
    paid_file,      \* content of paid_users.json on disk
    clock,          \* wall clock read by datetime.now() when a grant is stored
    user_progress,  \* the module-level dict user_progress
    fsm_state,      \* MemoryStorage: state of each user's FSMContext
    fsm_data,       \* MemoryStorage: data of each user's FSMContext
    last,           \* what the last delivered update did (handler, replies, result)
    restart_count,  \* the global restart_count
    shutdown_flag,  \* the global shutdown_flag
    loop_pc,        \* where run_bot_with_retries stands
    http_bound,     \* PORT is held by a TCPSite that start_http_server started
    broadcast_task  \* the call of cmd_broadcast that is suspended in its loop

vars == <<admin_ids, paid_users, paid_file, clock, user_progress, fsm_state, fsm_data, last,
          restart_count, shutdown_flag, loop_pc, http_bound, broadcast_task>>

----------------------------------------------------------------------------
(* Bounds of the model *)

MaxUser == 2        \* Telegram user ids are 1..MaxUser
MaxClock == 2       \* number of grants that can be stored in one run
MaxAttempts == 1    \* quiz attempts kept per user

Users == 1..MaxUser

----------------------------------------------------------------------------
(* Static course data *)

\* len(MODULES)
NumModules == 6
\* len(TEST_QUESTIONS)
NumQuestions == 2
\* ACCESS_CONFIG["price_per_course"]
PricePerCourse == 2990

\* the global max_restarts
max_restarts == 100

\* MODULES[i]["emoji"], i = 0..5; the keys are the leading emoji of a text
MODULES == <<"books", "classical_building", "office", "briefcase", "rocket", "trophy">>

\* TEST_QUESTIONS: id and correct letter of each question
TEST_QUESTIONS == << [id |-> 1, correct |-> "b"], [id |-> 2, correct |-> "a"] >>

\* the four answer buttons of get_test_keyboard (а, б, в, г)
Letters == {"a", "b", "v", "g"}

\* class UserState; "none" is the FSM's None
UserState == {"none", "viewing_module", "waiting_feedback", "taking_test",
              "test_question", "admin_menu", "admin_grant_access", "admin_revoke_access"}

----------------------------------------------------------------------------
(* Text conversions *)

\* the largest user id a text of the model can denote
MaxId == 10 * MaxUser + 9

\* str(user_id), tabulated: the dict key under which a user is stored
StrTable == [n \in 0..MaxId |-> ToString(n)]

Str(n) == StrTable[n]

RECURSIVE DigitsValue(_)
DigitsValue(s) == IF s = <<>> THEN 0 ELSE 10 * DigitsValue(SubSeq(s, 1, Len(s) - 1)) + s[Len(s)]

\* int(text.strip()): a text is a sequence of characters, 0..9 the digits and
\* 10 any other character; the result is the number, or -1 for ValueError
ParseInt(s) ==
    IF s = <<>> \/ (\E i \in DOMAIN s : s[i] > 9) THEN -1 ELSE DigitsValue(s)

\* str.lower() on the user names of the model
Lower(s) == IF s = "Alice" THEN "alice" ELSE s

\* user names bot.get_chat can report for a user ("" when it has none or the call fails)
ChatNames == {"", "Alice"}

----------------------------------------------------------------------------
(* The persisted file *)

NoFile == [kind |-> "missing"]
BadFile == [kind |-> "corrupt"]
JsonFile(data) == [kind |-> "json", data |-> data]

UnreadableFile == [kind |-> "unreadable"]

\* json.dump that writes the newest member only
json_dump_latest(data) ==
    IF data = <<>> THEN <<>>
    ELSE LET r == data[Len(data)]
         IN << <<r.key, <<r.granted_date, r.granted_by, r.username, r.price>>>> >>

\* json.dump of the paid_users dict: one member per user, the key and the value's
\* members in the order of the dict
json_dump(data) ==
    [i \in DOMAIN data |->
        <<data[i].key,
          <<data[i].granted_date, data[i].granted_by, data[i].username, data[i].price>>>>]

\* json.load of a text that json_dump wrote
json_load(text) ==
    [i \in DOMAIN text |->
        [key |-> text[i][1], granted_date |-> text[i][2][1], granted_by |-> text[i][2][2],
         username |-> text[i][2][3], price |-> text[i][2][4]]]

\* AccessManager.load_data("paid_users"): {} for a missing file and for every
\* exception of open and json.load
load_data(file) ==
    IF file.kind = "json" THEN json_load(file.data) ELSE <<>>

\* save_data that writes nothing
save_data_skips(file, data, io) == file

\* AccessManager.save_data("paid_users", data); io is what the file system does:
\* "ok", "open_fails" (nothing written) or "dump_fails" (file truncated by open)
save_data(file, data, io) ==
    CASE io = "ok" -> JsonFile(json_dump(data))
      [] io = "open_fails" -> file
      [] OTHER -> BadFile

----------------------------------------------------------------------------
(* AccessManager; a store is [paid_users, admin_ids, paid_file] *)

Store == [paid_users |-> paid_users, admin_ids |-> admin_ids, paid_file |-> paid_file]

Keys(pu) == {pu[i].key : i \in DOMAIN pu}

is_admin(st, user_id) == user_id \in st.admin_ids

\* has_access without the paid_users branch
has_access_admin_only(st, user_id) ==
    IF is_admin(st, user_id) THEN [ok |-> TRUE, type |-> "admin"]
    ELSE [ok |-> FALSE, type |-> "none"]

has_access(st, user_id) ==
    IF is_admin(st, user_id) THEN [ok |-> TRUE, type |-> "admin"]
    ELSE IF Str(user_id) \in Keys(st.paid_users) THEN [ok |-> TRUE, type |-> "paid"]
    ELSE [ok |-> FALSE, type |-> "none"]

\* grant_access_by_id without the early return: an existing record is rewritten
grant_access_overwrites(st, user_id, admin_id, username, now, io) ==
    LET rec == [key |-> Str(user_id), granted_date |-> now, granted_by |-> admin_id,
                username |-> username, price |-> PricePerCourse]
        pu == IF Str(user_id) \in Keys(st.paid_users)
              THEN [i \in DOMAIN st.paid_users |->
                      IF st.paid_users[i].key = Str(user_id) THEN rec ELSE st.paid_users[i]]
              ELSE Append(st.paid_users, rec)
    IN [ret |-> TRUE,
        st |-> [st EXCEPT !.paid_users = pu, !.paid_file = save_data(st.paid_file, pu, io)]]

\* grant_access_by_id that gives up, with the memory as it was, when the write fails
grant_access_by_id_checked(st, user_id, admin_id, username, now, io) ==
    IF Str(user_id) \in Keys(st.paid_users) \/ io # "ok"
    THEN [ret |-> FALSE, st |-> st]
    ELSE LET rec == [key |-> Str(user_id), granted_date |-> now, granted_by |-> admin_id,
                     username |-> username, price |-> PricePerCourse]
             pu == Append(st.paid_users, rec)
         IN [ret |-> TRUE,
             st |-> [st EXCEPT !.paid_users = pu,
                               !.paid_file = save_data(st.paid_file, pu, io)]]

grant_access_by_id(st, user_id, admin_id, username, now, io) ==
    IF Str(user_id) \in Keys(st.paid_users)
    THEN [ret |-> FALSE, st |-> st]
    ELSE LET rec == [key |-> Str(user_id), granted_date |-> now, granted_by |-> admin_id,
                     username |-> username, price |-> PricePerCourse]
             pu == Append(st.paid_users, rec)
         IN [ret |-> TRUE,
             st |-> [st EXCEPT !.paid_users = pu,
                               !.paid_file = save_data(st.paid_file, pu, io)]]

\* revoke_access without the del: the record stays
revoke_access_keeps(st, user_id, io) ==
    [ret |-> Str(user_id) \in Keys(st.paid_users), st |-> st]

\* revoke_access that also takes the user out of the admin set
revoke_access_drops_admin(st, user_id, io) ==
    IF Str(user_id) \in Keys(st.paid_users)
    THEN LET pu == SelectSeq(st.paid_users, LAMBDA r : r.key # Str(user_id))
         IN [ret |-> TRUE,
             st |-> [st EXCEPT !.paid_users = pu,
                               !.admin_ids = @ \ {user_id},
                               !.paid_file = save_data(st.paid_file, pu, io)]]
    ELSE [ret |-> FALSE, st |-> st]

revoke_access(st, user_id, io) ==
    IF Str(user_id) \in Keys(st.paid_users)
    THEN LET pu == SelectSeq(st.paid_users, LAMBDA r : r.key # Str(user_id))
         IN [ret |-> TRUE,
             st |-> [st EXCEPT !.paid_users = pu,
                               !.paid_file = save_data(st.paid_file, pu, io)]]
    ELSE [ret |-> FALSE, st |-> st]

\* get_user_by_username: index of the first record with that name, 0 for None
get_user_by_username(st, username) ==
    LET hits == {i \in DOMAIN st.paid_users :
                    Lower(st.paid_users[i].username) = Lower(username)}
    IN IF hits = {} THEN 0 ELSE CHOOSE i \in hits : \A j \in hits : i <= j

\* int(user_id_str) on a stored key (get_user_by_username returns int(user_id_str))
IntOfKey(key) == CHOOSE n \in 0..MaxId : Str(n) = key

----------------------------------------------------------------------------
(* Incoming messages.  text is the message text up to its argument:        *)
(*   "/start" ... "/cancel"   a command                                     *)
(*   "id:"                    the text id:<digits>                          *)
(*   "@name"                  a user name typed as free text                *)
(*   "lesson0" .. "lesson5"   the six buttons of get_lessons_list_keyboard  *)
(*   "<photo>"                a message without text                        *)
(*   anything else            the label of a button, or ordinary text       *)
(* digits is the argument read by int(), name the argument read as a name.  *)

Msg(text, has_args, digits, name) ==
    [text |-> text, has_args |-> has_args, digits |-> digits, name |-> name]

Btn(text) == Msg(text, FALSE, <<>>, "")

IsText(m) == m.text # "<photo>"

Commands == {"/start", "/myid", "/support", "/admin", "/grant", "/grant_id", "/revoke",
             "/userinfo", "/broadcast", "/help", "/contacts", "/cancel"}

\* check_access_middleware: command = message.text.split(' ')[0][1:].split('@')[0]
CommandOf(m) == IF m.text \in Commands THEN m.text ELSE "none"

\* allowed_commands of check_access_middleware
allowed_commands == {"/start", "/help", "/support", "/contacts", "/myid"}

LessonTags == <<"lesson0", "lesson1", "lesson2", "lesson3", "lesson4", "lesson5">>

\* the emoji a text starts with, for the texts that start with a module's emoji
LeadEmoji(m) ==
    IF \E i \in 1..NumModules : m.text = LessonTags[i]
    THEN MODULES[CHOOSE i \in 1..NumModules : m.text = LessonTags[i]]
    ELSE CASE m.text = "btn_course_menu" -> "books"        \* "📚 Меню курса"
           [] m.text = "btn_return_study" -> "books"       \* "📚 Вернуться к обучению"
           [] m.text = "btn_test_results" -> "trophy"      \* "🏆 Результаты теста"
           [] m.text = "text_books" -> "books"             \* a text of the user's own after 📚
           [] OTHER -> "other"

\* input_text.replace('@', '').strip() of a message read as a user name
NameText(m) == IF m.text = "@name" THEN m.name ELSE m.text

----------------------------------------------------------------------------
(* The dispatcher: handlers in the order of their @dp.message decorators;  *)
(* the first one whose filters match the text and the FSM state runs.      *)

HandlerFor(state, m) ==
    CASE m.text = "/start" -> "cmd_start"
      [] m.text = "/myid" -> "cmd_myid"
      [] m.text = "/support" -> "cmd_support"
      [] m.text = "/admin" -> "cmd_admin"
      [] m.text = "btn_admin_panel" -> "handle_admin_panel"
      [] m.text = "btn_list_users" /\ state = "admin_menu" -> "handle_admin_users"
      [] m.text = "btn_grant" /\ state = "admin_menu" -> "handle_grant_access"
      [] state = "admin_grant_access" -> "process_grant_access"
      [] m.text = "btn_revoke" /\ state = "admin_menu" -> "handle_revoke_access"
      [] state = "admin_revoke_access" -> "process_revoke_access"
      [] m.text = "btn_stats" /\ state = "admin_menu" -> "handle_admin_stats"
      [] m.text = "/grant" -> "cmd_grant"
      [] m.text = "/grant_id" -> "cmd_grant_id"
      [] m.text = "/revoke" -> "cmd_revoke"
      [] m.text = "/userinfo" -> "cmd_userinfo"
      [] m.text = "/broadcast" -> "cmd_broadcast"
      [] m.text = "btn_checklist" -> "handle_download_checklist"
      [] m.text = "btn_course_menu" -> "handle_course_menu"
      [] m.text = "btn_audio_lessons" -> "handle_audio_lessons"
      [] m.text = "btn_my_progress" -> "handle_my_progress"
      [] LeadEmoji(m) \in {MODULES[i] : i \in 1..NumModules} -> "handle_lesson_selection"
      [] m.text = "btn_prev" -> "handle_prev_lesson"
      [] m.text = "btn_next" -> "handle_next_lesson"
      [] m.text = "btn_listen_audio" -> "handle_listen_audio"
      [] m.text = "btn_complete" -> "handle_complete_lesson"
      [] m.text = "btn_start_test" -> "handle_start_test"
      [] m.text = "letter" /\ state = "taking_test" -> "handle_test_answer"
      [] m.text = "btn_skip" /\ state = "taking_test" -> "handle_skip_question"
      [] m.text = "btn_finish_test" /\ state = "taking_test" -> "handle_finish_test_early"
      [] m.text = "btn_mark_all" -> "handle_mark_all_modules"
      [] m.text = "btn_test_results" -> "handle_test_results"
      [] m.text = "btn_back_to_main" -> "handle_back_to_main"
      [] m.text = "btn_main_menu" -> "handle_back_to_main_from_test"
      [] m.text = "btn_back" -> "handle_back"
      [] m.text = "/help" -> "cmd_help"
      [] m.text = "/contacts" -> "cmd_contacts"
      [] OTHER -> "handle_other_messages"

\* every text of the model
Texts ==
    Commands \cup {LessonTags[i] : i \in 1..NumModules}
    \cup {"id:", "@name", "letter", "<photo>", "text", "text_books", "/unknown",
          "btn_admin_panel", "btn_list_users", "btn_grant", "btn_revoke", "btn_stats",
          "btn_checklist", "btn_course_menu", "btn_audio_lessons", "btn_my_progress",
          "btn_prev", "btn_next", "btn_listen_audio", "btn_complete", "btn_start_test",
          "btn_skip", "btn_finish_test", "btn_mark_all", "btn_test_results",
          "btn_back_to_main", "btn_main_menu", "btn_back", "btn_contact_admin",
          "btn_my_id", "btn_price", "btn_mark_all_long", "btn_test_anyway",
          "btn_return_study"}

\* HandlerFor, tabulated over the FSM states and the texts
DispatchTable == [s \in UserState, t \in Texts |-> HandlerFor(s, Btn(t))]

Dispatch(state, m) == DispatchTable[state, m.text]

----------------------------------------------------------------------------
(* FSM storage of one user: state and data (a dict with optional keys)     *)

NoTestData == [current_question |-> 0, answers |-> [q \in 1..NumQuestions |-> "none"]]

\* an empty data dict; keys is the set of keys the dict holds
EmptyData == [keys |-> {}, current_module |-> 0, test_data |-> NoTestData]

\* a progress record; fields is the set of keys the dict holds
NewProgress(last_module) ==
    [fields |-> {"start_date", "completed_modules", "last_module", "name", "username",
                 "audio_listened", "test_results"},
     completed_modules |-> <<>>, last_module |-> last_module,
     audio_listened |-> <<>>, test_results |-> <<>>]

Done(u, handler, replies, raised) ==
    /\ last' = [user |-> u, handler |-> handler, replies |-> replies, raised |-> raised]
    /\ UNCHANGED <<restart_count, shutdown_flag, loop_pc, http_bound, broadcast_task>>

SetStore(st) ==
    /\ paid_users' = st.paid_users
    /\ admin_ids' = st.admin_ids
    /\ paid_file' = st.paid_file

SameStore == UNCHANGED <<paid_users, admin_ids, paid_file, clock>>
SameFsm == UNCHANGED <<fsm_state, fsm_data>>

\* await state.clear()
Clear(u) ==
    /\ fsm_state' = [fsm_state EXCEPT ![u] = "none"]
    /\ fsm_data' = [fsm_data EXCEPT ![u] = EmptyData]

\* await state.set_state(s)
SetState(u, s) ==
    /\ fsm_state' = [fsm_state EXCEPT ![u] = s]
    /\ UNCHANGED fsm_data

----------------------------------------------------------------------------
(* check_access_middleware *)

\* check_access_middleware that hands every update on to the handler
MiddlewarePasses_all(st, u, m) ==
    \/ CommandOf(m) \in allowed_commands
    \/ is_admin(st, u)
    \/ ~has_access(st, u).ok
    \/ has_access(st, u).ok

MiddlewarePasses(st, u, m) ==
    \/ CommandOf(m) \in allowed_commands
    \/ is_admin(st, u)
    \/ has_access(st, u).ok

\* the update reaches handler h
Routed(u, m, h) ==
    /\ Dispatch(fsm_state[u], m) = h
    /\ MiddlewarePasses(Store, u, m)

\* the middleware answers with the access-restricted message and returns
AccessDenied(u, m) ==
    /\ ~MiddlewarePasses(Store, u, m)
    /\ Done(u, "check_access_middleware", <<"access_restricted">>, FALSE)
    /\ SameStore /\ SameFsm /\ UNCHANGED user_progress

----------------------------------------------------------------------------
(* Administrative handlers *)

\* storing a grant reads the clock; the model stops granting at MaxClock
CanStamp == clock <= MaxClock

\* cmd_admin (also reached from handle_admin_panel)
cmd_admin_body(u, h) ==
    IF ~is_admin(Store, u)
    THEN /\ Done(u, h, <<"no_admin_rights">>, FALSE)
         /\ SameFsm
    ELSE /\ SetState(u, "admin_menu")
         /\ Done(u, h, <<"admin_panel">>, FALSE)

CmdAdmin(u, m) ==
    /\ Routed(u, m, "cmd_admin")
    /\ cmd_admin_body(u, "cmd_admin")
    /\ SameStore /\ UNCHANGED user_progress

HandleAdminPanel(u, m) ==
    /\ Routed(u, m, "handle_admin_panel")
    /\ cmd_admin_body(u, "handle_admin_panel")
    /\ SameStore /\ UNCHANGED user_progress

HandleGrantAccess(u, m) ==
    /\ Routed(u, m, "handle_grant_access")
    /\ IF ~is_admin(Store, u)
       THEN Done(u, "handle_grant_access", <<>>, FALSE) /\ SameFsm
       ELSE SetState(u, "admin_grant_access")
            /\ Done(u, "handle_grant_access", <<"grant_prompt">>, FALSE)
    /\ SameStore /\ UNCHANGED user_progress

HandleRevokeAccess(u, m) ==
    /\ Routed(u, m, "handle_revoke_access")
    /\ IF ~is_admin(Store, u)
       THEN Done(u, "handle_revoke_access", <<>>, FALSE) /\ SameFsm
       ELSE SetState(u, "admin_revoke_access")
            /\ Done(u, "handle_revoke_access", <<"revoke_prompt">>, FALSE)
    /\ SameStore /\ UNCHANGED user_progress

\* the grant by id of process_grant_access and cmd_grant_id, from the parsed id on:
\* the outcome is the new store and the reply to the admin
GrantById(st, admin_id, target, chat_name, now, io) ==
    IF target = -1
    THEN [st |-> st, reply |-> "bad_id_format", granted |-> FALSE]
    ELSE IF Str(target) \in Keys(st.paid_users)
    THEN [st |-> st, reply |-> "already_has_access", granted |-> FALSE]
    ELSE LET res == grant_access_by_id(st, target, admin_id, chat_name, now, io)
         IN IF res.ret
            THEN [st |-> res.st, reply |-> "grant_ok", granted |-> TRUE]
            ELSE [st |-> res.st, reply |-> "grant_failed", granted |-> FALSE]

\* the revoke by id without the membership test of process_revoke_access
RevokeById_unchecked(st, target, io) ==
    IF target = -1
    THEN [st |-> st, reply |-> "bad_id_format", revoked |-> FALSE]
    ELSE LET res == revoke_access(st, target, io)
         IN IF res.ret
            THEN [st |-> res.st, reply |-> "revoke_ok", revoked |-> TRUE]
            ELSE [st |-> res.st, reply |-> "revoke_failed", revoked |-> FALSE]

\* the revoke by id of process_revoke_access
RevokeById(st, target, io) ==
    IF target = -1
    THEN [st |-> st, reply |-> "bad_id_format", revoked |-> FALSE]
    ELSE IF Str(target) \notin Keys(st.paid_users)
    THEN [st |-> st, reply |-> "has_no_access", revoked |-> FALSE]
    ELSE LET res == revoke_access(st, target, io)
         IN IF res.ret
            THEN [st |-> res.st, reply |-> "revoke_ok", revoked |-> TRUE]
            ELSE [st |-> res.st, reply |-> "revoke_failed", revoked |-> FALSE]

\* the revoke by user name of process_revoke_access and cmd_revoke
RevokeByName(st, username, io) ==
    LET i == get_user_by_username(st, username)
    IN IF i = 0
       THEN [st |-> st, reply |-> "user_not_found", revoked |-> FALSE]
       ELSE LET res == revoke_access(st, IntOfKey(st.paid_users[i].key), io)
            IN IF res.ret
               THEN [st |-> res.st, reply |-> "revoke_ok", revoked |-> TRUE]
               ELSE [st |-> res.st, reply |-> "revoke_failed", revoked |-> FALSE]

Tick(granted) == clock' = IF granted THEN clock + 1 ELSE clock

ProcessGrantAccess(u, m, chat_name, io) ==
    /\ Routed(u, m, "process_grant_access")
    /\ UNCHANGED user_progress
    /\ IF ~is_admin(Store, u)
       THEN Done(u, "process_grant_access", <<>>, FALSE) /\ SameStore /\ SameFsm
       ELSE IF ~IsText(m)
       THEN Done(u, "process_grant_access", <<>>, TRUE) /\ SameStore /\ SameFsm
       ELSE IF m.text = "/cancel"
       THEN Clear(u) /\ SameStore
            /\ Done(u, "process_grant_access", <<"grant_cancelled">>, FALSE)
       ELSE IF m.text = "id:"
       THEN LET out == GrantById(Store, u, ParseInt(m.digits), chat_name, clock, io)
            IN /\ out.granted => CanStamp
               /\ SetStore(out.st) /\ Tick(out.granted)
               /\ Done(u, "process_grant_access", <<out.reply>>, FALSE)
               /\ Clear(u)
       ELSE IF NameText(m) = ""
       THEN Done(u, "process_grant_access", <<"bad_username_format">>, FALSE)
            /\ SameStore /\ SameFsm
       ELSE Clear(u) /\ SameStore
            /\ Done(u, "process_grant_access", <<"search_user">>, FALSE)

ProcessRevokeAccess(u, m, io) ==
    /\ Routed(u, m, "process_revoke_access")
    /\ UNCHANGED <<user_progress, clock>>
    /\ IF ~is_admin(Store, u)
       THEN Done(u, "process_revoke_access", <<>>, FALSE)
            /\ UNCHANGED <<paid_users, admin_ids, paid_file>> /\ SameFsm
       ELSE IF ~IsText(m)
       THEN Done(u, "process_revoke_access", <<>>, TRUE)
            /\ UNCHANGED <<paid_users, admin_ids, paid_file>> /\ SameFsm
       ELSE IF m.text = "/cancel"
       THEN Clear(u) /\ UNCHANGED <<paid_users, admin_ids, paid_file>>
            /\ Done(u, "process_revoke_access", <<"revoke_cancelled">>, FALSE)
       ELSE IF m.text = "id:"
       THEN LET out == RevokeById(Store, ParseInt(m.digits), io)
            IN /\ SetStore(out.st)
               /\ Done(u, "process_revoke_access", <<out.reply>>, FALSE)
               /\ Clear(u)
       ELSE IF NameText(m) = ""
       THEN Done(u, "process_revoke_access", <<"bad_username_format">>, FALSE)
            /\ UNCHANGED <<paid_users, admin_ids, paid_file>> /\ SameFsm
       ELSE LET out == RevokeByName(Store, NameText(m), io)
            IN /\ SetStore(out.st)
               /\ Done(u, "process_revoke_access", <<out.reply>>, FALSE)
               /\ Clear(u)

\* cmd_grant never grants: it tells the admin to use the id
CmdGrant(u, m) ==
    /\ Routed(u, m, "cmd_grant")
    /\ SameStore /\ SameFsm /\ UNCHANGED user_progress
    /\ Done(u, "cmd_grant",
            IF ~is_admin(Store, u) THEN <<"no_admin_rights">>
            ELSE IF ~m.has_args THEN <<"usage">> ELSE <<"search_user">>, FALSE)

\* cmd_grant_id without the is_admin test
cmd_grant_id_open(st, u, m, chat_name, now, io) ==
    IF ~m.has_args THEN [st |-> st, reply |-> "usage", granted |-> FALSE]
    ELSE GrantById(st, u, ParseInt(m.digits), chat_name, now, io)

cmd_grant_id(st, u, m, chat_name, now, io) ==
    IF ~is_admin(st, u) THEN [st |-> st, reply |-> "no_admin_rights", granted |-> FALSE]
    ELSE IF ~m.has_args THEN [st |-> st, reply |-> "usage", granted |-> FALSE]
    ELSE GrantById(st, u, ParseInt(m.digits), chat_name, now, io)

CmdGrantId(u, m, chat_name, io) ==
    /\ Routed(u, m, "cmd_grant_id")
    /\ SameFsm /\ UNCHANGED user_progress
    /\ LET out == cmd_grant_id(Store, u, m, chat_name, clock, io)
       IN /\ out.granted => CanStamp
          /\ SetStore(out.st) /\ Tick(out.granted)
          /\ Done(u, "cmd_grant_id", <<out.reply>>, FALSE)

cmd_revoke(st, u, m, io) ==
    IF ~is_admin(st, u) THEN [st |-> st, reply |-> "no_admin_rights", revoked |-> FALSE]
    ELSE IF ~m.has_args THEN [st |-> st, reply |-> "usage", revoked |-> FALSE]
    ELSE RevokeByName(st, m.name, io)

CmdRevoke(u, m, io) ==
    /\ Routed(u, m, "cmd_revoke")
    /\ SameFsm /\ UNCHANGED <<user_progress, clock>>
    /\ LET out == cmd_revoke(Store, u, m, io)
       IN /\ SetStore(out.st)
          /\ Done(u, "cmd_revoke", <<out.reply>>, FALSE)

----------------------------------------------------------------------------
(* Course and quiz: helpers *)

Contains(seq, x) == \E i \in DOMAIN seq : seq[i] = x

HasProgress(u) == u \in DOMAIN user_progress

\* user_progress[u] = rec
SetProgress(u, rec) ==
    user_progress' = [x \in DOMAIN user_progress \cup {u} |->
                        IF x = u THEN rec ELSE user_progress[x]]

\* await state.update_data(current_module=i)
WithModule(data, i) == [data EXCEPT !.keys = @ \cup {"current_module"}, !.current_module = i]

\* await state.update_data(test_data=td)
WithTest(data, td) == [data EXCEPT !.keys = @ \cup {"test_data"}, !.test_data = td]

\* data.get("current_module", 0)
CurrentModule(data) == IF "current_module" \in data.keys THEN data.current_module ELSE 0

\* an entry of user_progress that holds no key yet (user_progress[user_id] = {})
EmptyProgress == [NewProgress(0) EXCEPT !.fields = {}]

\* has tells whether user_progress holds the user's id
Session(u) ==
    [state |-> fsm_state[u], data |-> fsm_data[u], has |-> HasProgress(u),
     progress |-> IF HasProgress(u) THEN user_progress[u] ELSE EmptyProgress]

\* the session a handler leaves, with the replies it has sent
Out(s, replies, raised) ==
    [state |-> s.state, data |-> s.data, has |-> s.has, progress |-> s.progress,
     replies |-> replies, raised |-> raised]

\* Apply with an FSM storage that keeps one state for all users
Apply_shared(u, h, out) ==
    /\ fsm_state' = [v \in Users |-> out.state]
    /\ fsm_data' = [v \in Users |-> out.data]
    /\ IF out.has THEN SetProgress(u, out.progress) ELSE UNCHANGED user_progress
    /\ Done(u, h, out.replies, out.raised)

\* the handler h of user u ends with the outcome out
Apply(u, h, out) ==
    /\ fsm_state' = [fsm_state EXCEPT ![u] = out.state]
    /\ fsm_data' = [fsm_data EXCEPT ![u] = out.data]
    /\ IF out.has THEN SetProgress(u, out.progress) ELSE UNCHANGED user_progress
    /\ Done(u, h, out.replies, out.raised)

\* show_module(message, i, state)
show_module(st, u, s, i, audio_sent) ==
    IF ~has_access(st, u).ok
    THEN Out(s, <<"no_module_access">>, FALSE)
    ELSE Out([s EXCEPT !.state = "viewing_module",
                       !.data = WithModule(@, i),
                       !.progress = IF s.has
                                    THEN [@ EXCEPT !.fields = @ \cup {"last_module"},
                                                   !.last_module = i]
                                    ELSE @],
             IF audio_sent THEN <<"module", "audio">> ELSE <<"module", "audio_unavailable">>,
             FALSE)

\* the loop of handle_lesson_selection: the first module whose emoji the text starts with
SelectedModule(m) ==
    LET hits == {i \in 0..(NumModules - 1) : MODULES[i + 1] = LeadEmoji(m)}
    IN CHOOSE i \in hits : \A j \in hits : i <= j

HandleLessonSelection(u, m, audio_sent) ==
    /\ Routed(u, m, "handle_lesson_selection")
    /\ Apply(u, "handle_lesson_selection",
             show_module(Store, u, Session(u), SelectedModule(m), audio_sent))
    /\ SameStore

\* handle_prev_lesson that does not test for the first lesson
handle_prev_lesson_unclamped(st, u, s, audio_sent) ==
    show_module(st, u, s, CurrentModule(s.data) - 1, audio_sent)

handle_prev_lesson(st, u, s, audio_sent) ==
    LET current_module == CurrentModule(s.data)
    IN IF current_module > 0
       THEN show_module(st, u, s, current_module - 1, audio_sent)
       ELSE Out(s, <<"first_lesson">>, FALSE)

HandlePrevLesson(u, m, audio_sent) ==
    /\ Routed(u, m, "handle_prev_lesson")
    /\ SameStore
    /\ Apply(u, "handle_prev_lesson", handle_prev_lesson(Store, u, Session(u), audio_sent))

\* handle_next_lesson that does not test for the last lesson
handle_next_lesson_unclamped(st, u, s, audio_sent) ==
    show_module(st, u, s, CurrentModule(s.data) + 1, audio_sent)

handle_next_lesson(st, u, s, audio_sent) ==
    LET current_module == CurrentModule(s.data)
    IN IF current_module < NumModules - 1
       THEN show_module(st, u, s, current_module + 1, audio_sent)
       ELSE Out(s, <<"last_lesson">>, FALSE)

HandleNextLesson(u, m, audio_sent) ==
    /\ Routed(u, m, "handle_next_lesson")
    /\ SameStore
    /\ Apply(u, "handle_next_lesson", handle_next_lesson(Store, u, Session(u), audio_sent))

HandleListenAudio(u, m, audio_sent) ==
    /\ Routed(u, m, "handle_listen_audio")
    /\ SameStore /\ SameFsm
    /\ LET current_module == CurrentModule(fsm_data[u])
       IN IF audio_sent
          THEN /\ IF HasProgress(u) /\ ~Contains(user_progress[u].audio_listened, current_module + 1)
                  THEN SetProgress(u, [user_progress[u] EXCEPT
                                          !.fields = @ \cup {"audio_listened"},
                                          !.audio_listened = Append(@, current_module + 1)])
                  ELSE UNCHANGED user_progress
               /\ Done(u, "handle_listen_audio", <<"audio", "audio_sent">>, FALSE)
          ELSE /\ UNCHANGED user_progress
               /\ Done(u, "handle_listen_audio", <<"audio_unavailable">>, FALSE)

\* handle_complete_lesson without the membership test: the module is appended again
handle_complete_lesson_appends(s) ==
    LET current_module == CurrentModule(s.data)
        rec == IF s.has THEN s.progress ELSE NewProgress(current_module)
    IN IF "completed_modules" \notin rec.fields
       THEN Out(s, <<>>, TRUE)
       ELSE LET new == [rec EXCEPT !.completed_modules = Append(@, current_module + 1)]
            IN Out([s EXCEPT !.has = TRUE, !.progress = new],
                   IF Len(new.completed_modules) = NumModules
                   THEN <<"marked_completed", "course_completed">>
                   ELSE <<"marked_completed">>, FALSE)

handle_complete_lesson(s) ==
    LET current_module == CurrentModule(s.data)
        module_num == current_module + 1
        rec == IF s.has THEN s.progress ELSE NewProgress(current_module)
    IN IF "completed_modules" \notin rec.fields
       THEN \* KeyError: 'completed_modules'
            Out(s, <<>>, TRUE)
       ELSE IF ~Contains(rec.completed_modules, module_num)
       THEN LET new == [rec EXCEPT !.completed_modules = Append(@, module_num)]
            IN Out([s EXCEPT !.has = TRUE, !.progress = new],
                   IF Len(new.completed_modules) = NumModules
                   THEN <<"marked_completed", "course_completed">>
                   ELSE <<"marked_completed">>, FALSE)
       ELSE Out([s EXCEPT !.has = TRUE, !.progress = rec], <<"already_completed">>, FALSE)

HandleCompleteLesson(u, m) ==
    /\ Routed(u, m, "handle_complete_lesson")
    /\ SameStore
    /\ Apply(u, "handle_complete_lesson", handle_complete_lesson(Session(u)))

\* handle_mark_all_modules that starts from a new record
handle_mark_all_modules_resets(s) ==
    Out([s EXCEPT !.has = TRUE,
                  !.progress = [NewProgress(0) EXCEPT
                                   !.completed_modules = [i \in 1..NumModules |-> i],
                                   !.audio_listened = [i \in 1..NumModules |-> i]]],
        <<"all_marked">>, FALSE)

\* handle_mark_all_modules (also called from handle_other_messages)
handle_mark_all_modules(s) ==
    LET rec == IF s.has THEN s.progress ELSE NewProgress(0)
        missing == SelectSeq([i \in 1..NumModules |-> i],
                             LAMBDA i : ~Contains(rec.audio_listened, i))
    IN Out([s EXCEPT !.has = TRUE,
                     !.progress = [rec EXCEPT
                                      !.fields = @ \cup {"completed_modules", "audio_listened"},
                                      !.completed_modules = [i \in 1..NumModules |-> i],
                                      !.audio_listened = @ \o missing]],
           <<"all_marked">>, FALSE)

HandleMarkAllModules(u, m) ==
    /\ Routed(u, m, "handle_mark_all_modules")
    /\ Apply(u, "handle_mark_all_modules", handle_mark_all_modules(Session(u)))
    /\ SameStore

----------------------------------------------------------------------------
(* Quiz.  The handlers are functions of the user's session: the FSM state  *)
(* and data of the user and the user's entry of user_progress.             *)

\* the attempts a user has stored
Attempts(u) == IF HasProgress(u) THEN Len(user_progress[u].test_results) ELSE 0

\* the test_data start_test_internal builds
NewTestData == [current_question |-> 0, answers |-> [q \in 1..NumQuestions |-> "none"]]

\* the scoring loop with every answered question counted as correct
score_counts_answered(answers) ==
    LET results == [i \in 1..NumQuestions |->
                      [question_id |-> TEST_QUESTIONS[i].id,
                       user_answer |-> answers[TEST_QUESTIONS[i].id],
                       correct_answer |-> TEST_QUESTIONS[i].correct,
                       is_correct |-> answers[TEST_QUESTIONS[i].id] # "none"]]
        correct_answers == Cardinality({i \in 1..NumQuestions : results[i].is_correct})
    IN [correct_answers |-> correct_answers,
        total_questions |-> NumQuestions,
        percentage |-> (correct_answers * 100) \div NumQuestions,
        results |-> results]

\* the scoring loop of finish_test over TEST_QUESTIONS
score(answers) ==
    LET results == [i \in 1..NumQuestions |->
                      [question_id |-> TEST_QUESTIONS[i].id,
                       user_answer |-> answers[TEST_QUESTIONS[i].id],
                       correct_answer |-> TEST_QUESTIONS[i].correct,
                       is_correct |-> answers[TEST_QUESTIONS[i].id] = TEST_QUESTIONS[i].correct]]
        correct_answers == Cardinality({i \in 1..NumQuestions : results[i].is_correct})
    IN [correct_answers |-> correct_answers,
        total_questions |-> NumQuestions,
        \* (correct_answers / total_questions) * 100, exact for the 2 questions
        percentage |-> (correct_answers * 100) \div NumQuestions,
        results |-> results]

\* finish_test that stores the new result in place of the list
finish_test_overwrites(s, td, pre) ==
    Out([s EXCEPT !.has = TRUE,
                  !.progress = [@ EXCEPT !.fields = @ \cup {"test_results"},
                                         !.test_results = <<score(td.answers)>>],
                  !.state = "none",
                  !.data = EmptyData],
        pre \o <<"result", "summary">>, FALSE)

\* finish_test on the test data td of the state; pre are the replies already sent
finish_test(s, td, pre) ==
    Out([s EXCEPT !.has = TRUE,
                  !.progress = [@ EXCEPT !.fields = @ \cup {"test_results"},
                                         !.test_results = Append(@, score(td.answers))],
                  !.state = "none",
                  !.data = EmptyData],
        pre \o <<"result", "summary">>, FALSE)

\* send_test_question(message, state, k) on the test data td of the state
send_test_question(s, td, k, pre) ==
    IF k >= NumQuestions
    THEN finish_test(s, td, pre)
    ELSE Out([s EXCEPT !.data = WithTest(@, [td EXCEPT !.current_question = k])],
             pre \o <<"question">>, FALSE)

\* start_test_internal that keeps the test_data the state holds
start_test_internal_resumes(st, u, s) ==
    IF ~has_access(st, u).ok
    THEN Out(s, <<"no_test_access">>, FALSE)
    ELSE LET td == IF "test_data" \in s.data.keys THEN s.data.test_data ELSE NewTestData
         IN send_test_question([s EXCEPT !.state = "taking_test", !.data = WithTest(@, td)],
                               td, td.current_question, <<>>)

start_test_internal(st, u, s) ==
    IF ~has_access(st, u).ok
    THEN Out(s, <<"no_test_access">>, FALSE)
    ELSE send_test_question([s EXCEPT !.state = "taking_test",
                                      !.data = WithTest(@, NewTestData)],
                            NewTestData, 0, <<>>)

handle_start_test(st, u, s) ==
    IF ~has_access(st, u).ok
    THEN Out(s, <<"no_test_access">>, FALSE)
    ELSE IF s.has /\ Len(s.progress.completed_modules) < NumModules
    THEN Out(s, <<"modules_incomplete">>, FALSE)
    ELSE start_test_internal(st, u, s)

\* the model stops starting attempts at cap stored results
HandleStartTest(u, m, cap) ==
    /\ Routed(u, m, "handle_start_test")
    /\ Attempts(u) < cap
    /\ SameStore
    /\ Apply(u, "handle_start_test", handle_start_test(Store, u, Session(u)))

\* process_test_answer that stores the letter under the id of the other question
process_test_answer_other_id(s, answer) ==
    LET current_question == s.data.test_data.current_question
    IN IF current_question >= NumQuestions
       THEN Out(s, <<>>, FALSE)
       ELSE LET other == TEST_QUESTIONS[NumQuestions - current_question].id
                td == [s.data.test_data EXCEPT !.answers[other] = answer]
            IN IF current_question + 1 < NumQuestions
               THEN send_test_question(s, td, current_question + 1, <<>>)
               ELSE finish_test(s, td, <<>>)

process_test_answer(s, answer) ==
    LET current_question == s.data.test_data.current_question
    IN IF "test_data" \notin s.data.keys
       THEN \* KeyError: 'answers'
            Out(s, <<>>, TRUE)
       ELSE IF current_question >= NumQuestions
       THEN Out(s, <<>>, FALSE)
       ELSE LET question == TEST_QUESTIONS[current_question + 1]
                td == [s.data.test_data EXCEPT !.answers[question.id] = answer]
                next_question == current_question + 1
            IN IF next_question < NumQuestions
               THEN send_test_question(s, td, next_question, <<>>)
               ELSE finish_test(s, td, <<>>)

HandleTestAnswer(u, m) ==
    /\ Routed(u, m, "handle_test_answer")
    /\ m.name \in Letters
    /\ SameStore
    /\ Apply(u, "handle_test_answer", process_test_answer(Session(u), m.name))

\* handle_skip_question that stores the first letter as the answer of the question
handle_skip_question_answers(s) ==
    LET current_question == s.data.test_data.current_question
        td == [s.data.test_data EXCEPT
                  !.answers[TEST_QUESTIONS[current_question + 1].id] = "a"]
    IN IF current_question + 1 < NumQuestions
       THEN send_test_question(s, td, current_question + 1, <<"skipped">>)
       ELSE finish_test(s, td, <<>>)

handle_skip_question(s) ==
    LET td == s.data.test_data
        next_question == td.current_question + 1
    IN IF next_question < NumQuestions
       THEN send_test_question(s, td, next_question, <<"skipped">>)
       ELSE finish_test(s, td, <<>>)

HandleSkipQuestion(u, m) ==
    /\ Routed(u, m, "handle_skip_question")
    /\ SameStore
    /\ Apply(u, "handle_skip_question", handle_skip_question(Session(u)))

\* handle_finish_test_early that scores an empty answer sheet
handle_finish_test_early_discards(s) == finish_test(s, NewTestData, <<"finished_early">>)

handle_finish_test_early(s) == finish_test(s, s.data.test_data, <<"finished_early">>)

HandleFinishTestEarly(u, m) ==
    /\ Routed(u, m, "handle_finish_test_early")
    /\ SameStore
    /\ Apply(u, "handle_finish_test_early", handle_finish_test_early(Session(u)))

----------------------------------------------------------------------------
(* /start and the handlers that only reply *)

\* cmd_start that writes a new record over the one the user has
cmd_start_resets(st, u, s) ==
    Out([s EXCEPT !.has = TRUE, !.progress = NewProgress(0),
                  !.state = "none", !.data = EmptyData],
        IF has_access(st, u).ok THEN <<"welcome">> ELSE <<"welcome_no_access">>, FALSE)

cmd_start(st, u, s) ==
    Out([s EXCEPT !.has = TRUE,
                  !.progress = IF s.has THEN @ ELSE NewProgress(0),
                  !.state = "none",
                  !.data = EmptyData],
        IF has_access(st, u).ok THEN <<"welcome">> ELSE <<"welcome_no_access">>, FALSE)

CmdStart(u, m) ==
    /\ Routed(u, m, "cmd_start")
    /\ SameStore
    /\ Apply(u, "cmd_start", cmd_start(Store, u, Session(u)))

\* a handler that sends replies and changes nothing
Replies(u, h, replies, raised) ==
    /\ Done(u, h, replies, raised)
    /\ SameStore /\ SameFsm /\ UNCHANGED user_progress

cmd_myid_replies == <<"my_id">>

cmd_support_replies(u) ==
    IF has_access(Store, u).ok THEN <<"support_has_access">> ELSE <<"support_no_access">>

CmdMyid(u, m) ==
    Routed(u, m, "cmd_myid") /\ Replies(u, "cmd_myid", cmd_myid_replies, FALSE)

CmdSupport(u, m) ==
    Routed(u, m, "cmd_support") /\ Replies(u, "cmd_support", cmd_support_replies(u), FALSE)

CmdHelp(u, m) ==
    Routed(u, m, "cmd_help") /\ Replies(u, "cmd_help", <<"help">>, FALSE)

CmdContacts(u, m) ==
    Routed(u, m, "cmd_contacts") /\ Replies(u, "cmd_contacts", <<"contacts">>, FALSE)

\* the bound of the slice [:10] in handle_admin_users
ListLimit == 10

\* handle_admin_users: the header with the total, then one line for each item of
\* list(access_manager.paid_users.items())[:10]; listed are the ids of those lines
handle_admin_users(st, u) ==
    IF ~is_admin(st, u)
    THEN [replies |-> <<>>, listed |-> <<>>]
    ELSE LET n == Len(st.paid_users)
             shown == SubSeq(st.paid_users, 1, IF n < ListLimit THEN n ELSE ListLimit)
         IN [replies |-> IF n = 0 THEN <<"users_list", "no_users">> ELSE <<"users_list">>,
             listed |-> [i \in DOMAIN shown |-> shown[i].key]]

HandleAdminUsers(u, m) ==
    /\ Routed(u, m, "handle_admin_users")
    /\ LET out == handle_admin_users(Store, u)
       IN Replies(u, "handle_admin_users", out.replies \o out.listed, FALSE)

HandleAdminStats(u, m) ==
    /\ Routed(u, m, "handle_admin_stats")
    /\ Replies(u, "handle_admin_stats",
               IF is_admin(Store, u) THEN <<"stats">> ELSE <<>>, FALSE)

CmdUserinfo(u, m) ==
    /\ Routed(u, m, "cmd_userinfo")
    /\ Replies(u, "cmd_userinfo",
               IF ~is_admin(Store, u) THEN <<"no_admin_rights">>
               ELSE IF ~m.has_args THEN <<"usage">>
               ELSE IF get_user_by_username(Store, m.name) = 0 THEN <<"user_not_found">>
               ELSE <<"user_info">>, FALSE)

HandleDownloadChecklist(u, m, file_ok) ==
    /\ Routed(u, m, "handle_download_checklist")
    /\ Replies(u, "handle_download_checklist",
               IF ~has_access(Store, u).ok THEN <<"no_checklist_access">>
               ELSE IF file_ok THEN <<"checklist">> ELSE <<"checklist_unavailable">>, FALSE)

handle_course_menu_replies == <<"course_menu">>

HandleCourseMenu(u, m) ==
    /\ Routed(u, m, "handle_course_menu")
    /\ Replies(u, "handle_course_menu", handle_course_menu_replies, FALSE)

HandleAudioLessons(u, m) ==
    /\ Routed(u, m, "handle_audio_lessons")
    /\ Replies(u, "handle_audio_lessons", <<"audio_list">>, FALSE)

handle_my_progress(s) ==
    IF ~s.has
    THEN Out(s, <<"not_started">>, FALSE)
    ELSE IF "start_date" \notin s.progress.fields
    THEN \* KeyError: 'start_date'
         Out(s, <<>>, TRUE)
    ELSE IF Len(s.progress.completed_modules) = NumModules
    THEN Out(s, <<"progress">>, FALSE)
    ELSE Out(s, <<"progress_incomplete">>, FALSE)

HandleMyProgress(u, m) ==
    /\ Routed(u, m, "handle_my_progress")
    /\ LET out == handle_my_progress(Session(u))
       IN Replies(u, "handle_my_progress", out.replies, out.raised)

HandleTestResults(u, m) ==
    /\ Routed(u, m, "handle_test_results")
    /\ Replies(u, "handle_test_results",
               IF ~HasProgress(u) THEN <<"no_tests_yet">>
               ELSE IF user_progress[u].test_results = <<>> THEN <<"no_results">>
               ELSE <<"last_result">>, FALSE)

HandleBackToMain(u, m) ==
    Routed(u, m, "handle_back_to_main") /\ Replies(u, "handle_back_to_main", <<"main_menu">>, FALSE)

HandleBackToMainFromTest(u, m) ==
    /\ Routed(u, m, "handle_back_to_main_from_test")
    /\ Replies(u, "handle_back_to_main_from_test", <<"main_menu">>, FALSE)

HandleBack(u, m) ==
    Routed(u, m, "handle_back") /\ Replies(u, "handle_back", <<"back">>, FALSE)

\* the branch "📝 Пройти тест все равно" of handle_other_messages: the argument
\* dp.current_state(user=user_id) is evaluated first, and aiogram 3's Dispatcher
\* has no current_state, so the call raises AttributeError before
\* start_test_internal runs
take_test_anyway(st, u, s) == Out(s, <<>>, TRUE)

\* the catch-all handler, registered last
\* handle_other_messages that clears the FSM state before the fallback answer
handle_other_messages_clears(st, u, s, m) ==
    Out([s EXCEPT !.state = "none", !.data = EmptyData], <<"fallback_help">>, FALSE)

handle_other_messages(st, u, s, m) ==
    IF ~IsText(m)
    THEN Out(s, <<>>, FALSE)
    ELSE CASE m.text = "btn_contact_admin" -> Out(s, cmd_support_replies(u), FALSE)
           [] m.text = "btn_my_id" -> Out(s, cmd_myid_replies, FALSE)
           [] m.text = "btn_price" -> Out(s, <<"price">>, FALSE)
           [] m.text = "btn_mark_all_long" -> handle_mark_all_modules(s)
           [] m.text = "btn_test_anyway" -> take_test_anyway(st, u, s)
           [] m.text = "btn_return_study" -> Out(s, handle_course_menu_replies, FALSE)
           [] OTHER -> Out(s, <<"fallback_help">>, FALSE)

HandleOtherMessages(u, m) ==
    /\ Routed(u, m, "handle_other_messages")
    /\ SameStore
    /\ Apply(u, "handle_other_messages", handle_other_messages(Store, u, Session(u), m))

----------------------------------------------------------------------------
(* Start of the process *)

\* ADMIN_IDS of the environment, read by AccessManager.__init__
AdminChoices == {{}, {1}}

\* paid_users.json as an earlier run can have left it
\* no call of cmd_broadcast is suspended
NoTask == [active |-> FALSE]

InitialFiles ==
    {NoFile,
     JsonFile(json_dump(<< [key |-> Str(MaxUser), granted_date |-> 0, granted_by |-> 1,
                            username |-> "Alice", price |-> PricePerCourse] >>))}

Init ==
    /\ admin_ids \in AdminChoices
    /\ paid_file \in InitialFiles
    /\ paid_users = load_data(paid_file)
    /\ clock = 1
    /\ user_progress = [x \in {} |-> NewProgress(0)]
    /\ fsm_state = [u \in Users |-> "none"]
    /\ fsm_data = [u \in Users |-> EmptyData]
    /\ last = [user |-> 0, handler |-> "none", replies |-> <<>>, raised |-> FALSE]
    /\ restart_count = 0
    /\ shutdown_flag = FALSE
    /\ loop_pc = "while"
    /\ http_bound = FALSE
    /\ broadcast_task = NoTask

----------------------------------------------------------------------------
(* Inputs *)

\* the digits an admin can type after id: or /grant_id ; 10 is a non-digit
IdTexts == {<<u>> : u \in Users} \cup {<<0, 1>>, <<10>>}

\* the user names an admin can type
NameInputs == {"", "alice", "carol"}

\* what the file system does on a write
IoOutcomes == {"ok", "open_fails", "dump_fails"}

IdMsgs == {Msg("id:", FALSE, d, "") : d \in IdTexts}
NameMsgs == {Msg("@name", FALSE, <<>>, n) : n \in NameInputs}
GrantIdMsgs == {Btn("/grant_id")} \cup {Msg("/grant_id", TRUE, d, "") : d \in IdTexts}
RevokeMsgs == {Btn("/revoke")} \cup {Msg("/revoke", TRUE, <<>>, n) : n \in NameInputs}
LetterMsgs == {Msg("letter", FALSE, <<>>, l) : l \in Letters}

\* the messages of the administrative flows
AccessMsgs ==
    {Btn(t) : t \in {"/admin", "btn_grant", "btn_revoke", "/cancel"}}
    \cup IdMsgs \cup NameMsgs \cup GrantIdMsgs \cup RevokeMsgs

----------------------------------------------------------------------------
(* The access store under the administrative flows *)

NextAccess ==
    \E u \in Users, m \in AccessMsgs :
        \/ AccessDenied(u, m)
        \/ CmdAdmin(u, m)
        \/ HandleGrantAccess(u, m)
        \/ \E n \in ChatNames : ProcessGrantAccess(u, m, n, "ok")
        \/ HandleRevokeAccess(u, m)
        \/ ProcessRevokeAccess(u, m, "ok")
        \/ \E n \in ChatNames : CmdGrantId(u, m, n, "ok")
        \/ CmdRevoke(u, m, "ok")
        \/ HandleOtherMessages(u, m)

SpecAccess == Init /\ [][NextAccess]_vars

----------------------------------------------------------------------------
(* Properties of the access store, checked under SpecAccess                *)

\* the ids a text of the model can name
Ids == 0..MaxId

InGranted(st, u) == \E i \in DOMAIN st.paid_users : st.paid_users[i].key = Str(u)

GrantHandlers == {"process_grant_access", "cmd_grant_id"}
RevokeHandlers == {"process_revoke_access", "cmd_revoke"}

\* C1: in every reachable state has_access(u) reports access exactly when u
\* is in the admin set or has a record in paid_users, whatever the age of
\* the record (there is no expiry).
C1_AccessIffAdminOrGranted ==
    \A u \in Ids :
        /\ has_access(Store, u).ok <=> (u \in admin_ids \/ InGranted(Store, u))
        /\ has_access(Store, u).type =
              IF u \in admin_ids THEN "admin"
              ELSE IF InGranted(Store, u) THEN "paid" ELSE "none"

\* a record stored before now gives access to a non-admin, and the middleware has
\* stopped a user who is no admin and has no record
C1_Witness ==
    /\ \E i \in DOMAIN paid_users :
            /\ paid_users[i].granted_date < clock
            /\ IntOfKey(paid_users[i].key) \notin admin_ids
            /\ has_access(Store, IntOfKey(paid_users[i].key)).ok
    /\ last.handler = "check_access_middleware"
    /\ last.user \notin admin_ids /\ ~InGranted(Store, last.user)
    /\ ~has_access(Store, last.user).ok

\* grant(u, admin, note) followed by revoke(u), on the current store
GrantThenRevoke(u, a, n) ==
    LET g == grant_access_by_id(Store, u, a, n, clock, "ok")
        r == revoke_access(g.st, u, "ok")
    IN [granted |-> has_access(g.st, u).ok, revoked |-> has_access(r.st, u).ok]

\* C3 (as stated): for all user ids u, has_access(u) is true right after
\* grant(u, admin, note) and false right after a subsequent revoke(u).
C3_Original ==
    \A u \in Ids, a \in Users, n \in ChatNames :
        /\ GrantThenRevoke(u, a, n).granted
        /\ ~GrantThenRevoke(u, a, n).revoked

\* C3 (amended): for all user ids u outside the admin set, has_access(u) is
\* true right after grant(u, admin, note) and false right after a subsequent
\* revoke(u); for an id in the admin set it is true after both.
C3_GrantThenRevoke ==
    \A u \in Ids, a \in Users, n \in ChatNames :
        /\ GrantThenRevoke(u, a, n).granted
        /\ GrantThenRevoke(u, a, n).revoked <=> (u \in admin_ids)

\* an admin has granted access in this run and then revoked a user, who is left without access
C3_Witness ==
    /\ clock > 1
    /\ last.handler \in RevokeHandlers /\ last.replies = <<"revoke_ok">>
    /\ \E u \in Users : u \notin admin_ids /\ ~has_access(Store, u).ok

\* C4: a grant for a user id already in the granted set returns False and
\* leaves the store as it is: same records in the same order, with the
\* grant date, granting admin and username of that user not overwritten;
\* the handlers answer that the user already has access.  In particular
\* the second of two grants in a row is such a no-op.
C4_GrantIdempotent ==
    \A u \in Ids, a \in Users, n \in ChatNames :
        LET g1 == grant_access_by_id(Store, u, a, n, clock, "ok")
            g2 == grant_access_by_id(g1.st, u, a, n, clock + 1, "ok")
        IN /\ ~g2.ret /\ g2.st = g1.st
           /\ Len(g2.st.paid_users) = Len(g1.st.paid_users)
           /\ InGranted(Store, u) =>
                /\ ~g1.ret /\ g1.st = Store
                /\ GrantById(Store, a, u, n, clock, "ok") =
                      [st |-> Store, reply |-> "already_has_access", granted |-> FALSE]

\* an admin asked for a grant to a user who had a record, and the record is as stored before
C4_Witness ==
    /\ last.handler \in GrantHandlers
    /\ last.replies = <<"already_has_access">>
    /\ \E i \in DOMAIN paid_users : paid_users[i].granted_date < clock - 1

\* C5: a revoke for a user id that is not in the granted set returns False,
\* a revoke by id or by an unknown username is answered with "has no
\* access" / "not found", the store is left as it is and nothing is raised;
\* a second revoke right after a successful one is such a no-op.
C5_RevokeAbsent ==
    /\ \A u \in Ids :
        LET r1 == revoke_access(Store, u, "ok")
            r2 == revoke_access(r1.st, u, "ok")
        IN /\ ~r2.ret /\ r2.st = r1.st
           /\ RevokeById(r1.st, u, "ok") =
                 [st |-> r1.st, reply |-> "has_no_access", revoked |-> FALSE]
           /\ ~InGranted(Store, u) => (~r1.ret /\ r1.st = Store)
    /\ \A n \in NameInputs :
        get_user_by_username(Store, n) = 0 =>
            RevokeByName(Store, n, "ok") =
                [st |-> Store, reply |-> "user_not_found", revoked |-> FALSE]
    /\ (last.handler \in RevokeHandlers
            /\ last.replies \in {<<"has_no_access">>, <<"user_not_found">>}) => ~last.raised

\* a user was revoked in this run and the admin asked to revoke an absent user again
C5_Witness ==
    /\ last.handler \in RevokeHandlers
    /\ last.replies \in {<<"has_no_access">>, <<"user_not_found">>}
    /\ paid_users = <<>> /\ paid_file = JsonFile(<<>>)

\* C6: the granted-users set (and its file) changes only in a step of the
\* admin-panel grant or revoke flow, of /grant_id or of /revoke, sent by a
\* user who is in the admin set; no step of a non-admin changes it.
C6_OnlyAdminsChangeGranted ==
    [][(paid_users' # paid_users \/ paid_file' # paid_file) =>
            /\ last'.user \in admin_ids
            /\ last'.handler \in GrantHandlers \cup RevokeHandlers
            /\ last'.replies \in {<<"grant_ok">>, <<"revoke_ok">>}]_vars

\* a user with access who is no admin is refused /grant_id or /revoke, next to a
\* record an admin stored in this run
C6_Witness ==
    /\ last.user \in Users \ admin_ids
    /\ has_access(Store, last.user).ok
    /\ last.handler \in {"cmd_grant_id", "cmd_revoke"}
    /\ last.replies = <<"no_admin_rights">>
    /\ \E i \in DOMAIN paid_users : paid_users[i].granted_date >= 1

\* C7: no grant or revoke takes an admin out of the admin set: an admin set
\* that is non-empty stays non-empty, and every admin, so the last one too,
\* has access after every step (revoke only ever touches paid_users).
C7_AdminsKept ==
    [][/\ admin_ids' = admin_ids
       /\ admin_ids # {} => admin_ids' # {}
       /\ \A a \in admin_ids : has_access(Store, a).ok']_vars

\* after grants and a revoke by the only admin the granted set is empty, and that
\* admin is still an admin with access
C7_Witness ==
    /\ Cardinality(admin_ids) = 1
    /\ clock > 1
    /\ last.user \in admin_ids
    /\ last.handler \in RevokeHandlers /\ last.replies = <<"revoke_ok">>
    /\ paid_users = <<>>
    /\ \A a \in admin_ids : has_access(Store, a).ok

----------------------------------------------------------------------------
(* The course and the quiz of one learner, with an admin granting and      *)
(* revoking the learner's access                                           *)

\* the user who takes the course
Learner == MaxUser

\* every message of the model
AllMsgs ==
    {Btn(t) : t \in Texts \ {"letter"}}
    \cup IdMsgs \cup NameMsgs \cup GrantIdMsgs \cup RevokeMsgs \cup LetterMsgs

\* the messages of the learner
CourseMsgs ==
    {Btn(t) : t \in {"lesson0", "btn_mark_all", "btn_start_test",
                     "btn_skip", "btn_finish_test"}}
    \cup {Msg("letter", FALSE, <<>>, l) : l \in {"a", "b"}}

\* the messages that grant and revoke the learner's access
LearnerAccessMsgs ==
    {Msg("/grant_id", TRUE, <<Learner>>, ""),
     Msg("/revoke", TRUE, <<>>, ""), Msg("/revoke", TRUE, <<>>, "alice")}

\* the users who send messages here: the learner and the users ADMIN_IDS can name
Actors == {Learner} \cup UNION AdminChoices

Next ==
    \/ \E u \in Actors, m \in AllMsgs : AccessDenied(u, m)
    \/ \E u \in Actors : CmdMyid(u, Btn("/myid"))
    \/ \E u \in Actors, m \in LearnerAccessMsgs :
        \/ \E n \in ChatNames : CmdGrantId(u, m, n, "ok")
        \/ CmdRevoke(u, m, "ok")
    \/ \E m \in CourseMsgs :
        \/ \E audio_sent \in BOOLEAN : HandleLessonSelection(Learner, m, audio_sent)
        \/ HandleMarkAllModules(Learner, m)
        \/ HandleStartTest(Learner, m, MaxAttempts)
        \/ HandleTestAnswer(Learner, m)
        \/ HandleSkipQuestion(Learner, m)
        \/ HandleFinishTestEarly(Learner, m)
        \/ HandleOtherMessages(Learner, m)

Spec == Init /\ [][Next]_vars

----------------------------------------------------------------------------
(* Properties of the middleware and of the quiz, checked under Spec        *)

\* the handlers of the commands the middleware lets everybody use
AllowedHandlers == {"cmd_start", "cmd_help", "cmd_support", "cmd_contacts", "cmd_myid"}

\* C2: when an update is delivered for a user who is neither an admin nor in
\* the granted set, and it is none of /start, /help, /support, /contacts,
\* /myid, then the middleware answers with the access-restricted message,
\* nothing is raised, and the user's progress record, FSM state and FSM data
\* (so the quiz in flight) are as before.
C2_DeniedChangesNothing ==
    [][\A u \in Users :
          (/\ u \notin admin_ids /\ ~InGranted(Store, u)
           /\ last'.user = u
           /\ last'.handler \notin AllowedHandlers)
          => /\ last'.handler = "check_access_middleware"
             /\ last'.replies = <<"access_restricted">>
             /\ ~last'.raised
             /\ user_progress' = user_progress
             /\ fsm_state' = fsm_state
             /\ fsm_data' = fsm_data]_vars

\* the learner, with a progress record and a quiz at its second question, has lost
\* access and is answered by the middleware
C2_Witness ==
    /\ Learner \notin admin_ids /\ ~InGranted(Store, Learner)
    /\ last.user = Learner
    /\ last.handler = "check_access_middleware"
    /\ last.replies = <<"access_restricted">>
    /\ HasProgress(Learner)
    /\ fsm_state[Learner] = "taking_test"
    /\ fsm_data[Learner].test_data.current_question = 1

\* the ids of the questions
QuestionIds == {TEST_QUESTIONS[i].id : i \in 1..NumQuestions}

\* the user's FSM data holds answers of a run that was started earlier
HasLeftover(u) ==
    /\ "test_data" \in fsm_data[u].keys
    /\ \/ fsm_data[u].test_data.current_question > 0
       \/ \E q \in QuestionIds : fsm_data[u].test_data.answers[q] # "none"

\* C8: for a user with access, starting a quiz leaves the user in
\* taking_test at question index 0 with no answer recorded for any question,
\* whatever test data an earlier unfinished run has left in the FSM data, and
\* leaves the progress record alone; "Пройти тест" starts it when the user has
\* no progress record or has completed all modules.
C8_StartIsFresh ==
    \A u \in Users :
        has_access(Store, u).ok =>
            LET s == Session(u)
                out == start_test_internal(Store, u, s)
            IN /\ out.state = "taking_test"
               /\ "test_data" \in out.data.keys
               /\ out.data.test_data.current_question = 0
               /\ \A q \in QuestionIds : out.data.test_data.answers[q] = "none"
               /\ out.has = s.has /\ out.progress = s.progress
               /\ out.replies = <<"question">> /\ ~out.raised
               /\ (~s.has \/ Len(s.progress.completed_modules) = NumModules)
                     => handle_start_test(Store, u, s) = out

\* the learner has left a run with a recorded answer for a lesson, and "Пройти тест"
\* starts a new run
C8_Witness ==
    /\ has_access(Store, Learner).ok
    /\ fsm_state[Learner] = "viewing_module"
    /\ HasLeftover(Learner)
    /\ \E q \in QuestionIds : fsm_data[Learner].test_data.answers[q] # "none"
    /\ handle_start_test(Store, Learner, Session(Learner)).state = "taking_test"

\* C9: in taking_test at question index k, an answer with a letter stores
\* that letter under the id of question k and changes no other answer; if
\* k is not the last index the state stays taking_test at index k+1 and the
\* progress record is as before; if k is the last index the run is scored
\* with that answer, the result is appended to the user's results and the
\* FSM state and data are cleared.
C9_AnswerRecordsAndAdvances ==
    \A u \in Users, l \in Letters :
        fsm_state[u] = "taking_test" =>
            LET s == Session(u)
                td == s.data.test_data
                k == td.current_question
                qid == TEST_QUESTIONS[k + 1].id
                answers == [q \in QuestionIds |-> IF q = qid THEN l ELSE td.answers[q]]
                out == process_test_answer(s, l)
            IN /\ "test_data" \in s.data.keys /\ k < NumQuestions
               /\ ~out.raised
               /\ IF k + 1 < NumQuestions
                  THEN /\ out.state = "taking_test"
                       /\ out.data.test_data.current_question = k + 1
                       /\ out.data.test_data.answers = answers
                       /\ out.has = s.has /\ out.progress = s.progress
                  ELSE /\ out.state = "none" /\ out.data = EmptyData
                       /\ out.has
                       /\ out.progress.test_results =
                             Append(s.progress.test_results, score(answers))
                       /\ score(answers).results[k + 1].user_answer = l

\* the learner has answered both questions with letters and the second answer has
\* finished the run
C9_Witness ==
    /\ last.user = Learner /\ last.handler = "handle_test_answer"
    /\ last.replies = <<"result", "summary">>
    /\ fsm_state[Learner] = "none"
    /\ HasProgress(Learner)
    /\ Len(user_progress[Learner].test_results) = 1
    /\ \A i \in 1..NumQuestions :
          user_progress[Learner].test_results[1].results[i].user_answer \in Letters

\* C10: in taking_test at question index k, a skip stores no answer for
\* question k and changes no other answer; it moves on as an answer does: to
\* index k+1 with the progress record as before, or, from the last index, to
\* a scored result (the skipped question counted as wrong) appended to the
\* user's results, with the FSM state and data cleared.
C10_SkipAdvancesWithoutAnswer ==
    \A u \in Users :
        fsm_state[u] = "taking_test" =>
            LET s == Session(u)
                td == s.data.test_data
                k == td.current_question
                qid == TEST_QUESTIONS[k + 1].id
                out == handle_skip_question(s)
            IN /\ td.answers[qid] = "none"
               /\ ~out.raised
               /\ \A l \in Letters :
                     /\ out.state = process_test_answer(s, l).state
                     /\ out.data.keys = process_test_answer(s, l).data.keys
                     /\ out.data.test_data.current_question =
                           process_test_answer(s, l).data.test_data.current_question
               /\ IF k + 1 < NumQuestions
                  THEN /\ out.state = "taking_test"
                       /\ out.data.test_data.current_question = k + 1
                       /\ out.data.test_data.answers = td.answers
                       /\ out.has = s.has /\ out.progress = s.progress
                  ELSE /\ out.state = "none" /\ out.data = EmptyData
                       /\ out.has
                       /\ out.progress.test_results =
                             Append(s.progress.test_results, score(td.answers))
                       /\ score(td.answers).results[k + 1].user_answer = "none"
                       /\ ~score(td.answers).results[k + 1].is_correct

\* the learner has answered the first question, skipped the second, and the skip has
\* finished the run
C10_Witness ==
    /\ last.user = Learner /\ last.handler = "handle_skip_question"
    /\ last.replies = <<"result", "summary">>
    /\ fsm_state[Learner] = "none"
    /\ HasProgress(Learner)
    /\ Len(user_progress[Learner].test_results) = 1
    /\ user_progress[Learner].test_results[1].results[1].user_answer \in Letters
    /\ user_progress[Learner].test_results[1].results[2].user_answer = "none"

\* C11: in taking_test, at any question index and with any answers recorded
\* so far, "finish test" ends the run at once: the FSM state and data are
\* cleared and one result is appended that scores the recorded answers, with
\* the current question and all later ones unanswered and counted as wrong.
C11_FinishEarlyScoresSoFar ==
    \A u \in Users :
        fsm_state[u] = "taking_test" =>
            LET s == Session(u)
                td == s.data.test_data
                k == td.current_question
                out == handle_finish_test_early(s)
                result == out.progress.test_results[Len(out.progress.test_results)]
            IN /\ out.state = "none" /\ out.data = EmptyData
               /\ out.has /\ ~out.raised
               /\ out.replies = <<"finished_early", "result", "summary">>
               /\ out.progress.test_results = Append(s.progress.test_results, result)
               /\ \A i \in 1..NumQuestions :
                     /\ result.results[i].user_answer = td.answers[TEST_QUESTIONS[i].id]
                     /\ i > k => /\ result.results[i].user_answer = "none"
                                 /\ ~result.results[i].is_correct
               /\ result.correct_answers =
                     Cardinality({i \in 1..k :
                         td.answers[TEST_QUESTIONS[i].id] = TEST_QUESTIONS[i].correct})

\* the learner has answered the first question with a letter and ended the run at the second
C11_Witness ==
    /\ last.user = Learner /\ last.handler = "handle_finish_test_early"
    /\ last.replies = <<"finished_early", "result", "summary">>
    /\ fsm_state[Learner] = "none"
    /\ HasProgress(Learner)
    /\ Len(user_progress[Learner].test_results) = 1
    /\ user_progress[Learner].test_results[1].results[1].user_answer \in Letters
    /\ user_progress[Learner].test_results[1].results[2].user_answer = "none"

\* the answer sheets a run can end with
AnswerSheets == [QuestionIds -> Letters \cup {"none"}]

\* the number of questions of a sheet answered with the correct letter
CorrectCount(answers) ==
    Cardinality({i \in 1..NumQuestions : answers[TEST_QUESTIONS[i].id] = TEST_QUESTIONS[i].correct})

\* C12: every stored result, and the score of every answer sheet, has
\* correct_answers equal to the number of questions answered with the
\* correct letter, an unanswered question counted as wrong, total_questions
\* equal to the number of quiz questions, and percentage * total_questions =
\* correct_answers * 100 (2 of 2 gives 100, 1 of 2 gives 50); a sheet with
\* every question skipped scores 0 with every question unanswered.
C12_Scoring ==
    /\ \A answers \in AnswerSheets :
          LET r == score(answers)
          IN /\ r.correct_answers = CorrectCount(answers)
             /\ r.total_questions = NumQuestions
             /\ r.percentage * r.total_questions = r.correct_answers * 100
             /\ (r.correct_answers = 2 /\ NumQuestions = 2) => r.percentage = 100
             /\ (r.correct_answers = 1 /\ NumQuestions = 2) => r.percentage = 50
             /\ \A i \in 1..NumQuestions :
                   /\ r.results[i].user_answer = answers[TEST_QUESTIONS[i].id]
                   /\ r.results[i].is_correct <=>
                         (answers[TEST_QUESTIONS[i].id] = TEST_QUESTIONS[i].correct)
                   /\ answers[TEST_QUESTIONS[i].id] = "none" => ~r.results[i].is_correct
             /\ (\A q \in QuestionIds : answers[q] = "none") => r.correct_answers = 0
    /\ \A u \in DOMAIN user_progress :
          \A j \in DOMAIN user_progress[u].test_results :
              LET r == user_progress[u].test_results[j]
              IN /\ r.total_questions = NumQuestions
                 /\ r.correct_answers =
                       Cardinality({i \in 1..NumQuestions :
                           r.results[i].user_answer = TEST_QUESTIONS[i].correct})
                 /\ r.percentage * r.total_questions = r.correct_answers * 100

\* the learner has a stored result with one question right and the other one unanswered: 50
C12_Witness ==
    /\ HasProgress(Learner)
    /\ \E j \in DOMAIN user_progress[Learner].test_results :
          LET r == user_progress[Learner].test_results[j]
          IN /\ r.correct_answers = 1 /\ r.percentage = 50
             /\ r.total_questions = NumQuestions
             /\ \E i \in 1..NumQuestions : r.results[i].user_answer = "none"

----------------------------------------------------------------------------
(* The quiz next to /start, a lesson, completion and mark-all: one learner, *)
(* with up to MaxAttempts + 1 stored attempts                               *)

QuizMsgs ==
    {Btn(t) : t \in {"/start", "lesson0", "btn_complete", "btn_mark_all", "btn_course_menu",
                     "btn_start_test", "btn_skip", "btn_finish_test", "btn_test_anyway"}}
    \cup {Msg("letter", FALSE, <<>>, "b")}

NextQuiz ==
    \E m \in QuizMsgs :
        \/ AccessDenied(Learner, m)
        \/ CmdStart(Learner, m)
        \/ HandleCourseMenu(Learner, m)
        \/ \E audio_sent \in BOOLEAN : HandleLessonSelection(Learner, m, audio_sent)
        \/ HandleCompleteLesson(Learner, m)
        \/ HandleMarkAllModules(Learner, m)
        \/ HandleStartTest(Learner, m, MaxAttempts + 1)
        \/ HandleTestAnswer(Learner, m)
        \/ HandleSkipQuestion(Learner, m)
        \/ HandleFinishTestEarly(Learner, m)
        \/ HandleOtherMessages(Learner, m)

SpecQuiz == Init /\ [][NextQuiz]_vars

----------------------------------------------------------------------------
(* Properties checked under SpecQuiz                                       *)

\* the handlers that can end a run
FinishHandlers == {"handle_test_answer", "handle_skip_question", "handle_finish_test_early"}

\* the stored attempts of u before and after a step
ResultsOf(u) == IF HasProgress(u) THEN user_progress[u].test_results ELSE <<>>

\* C13: in every step the attempts a user had stored stay as they were, in
\* the same order, at the front of the user's list; the list grows by at
\* most one entry, and it grows exactly in the steps that end a run, which
\* leave the FSM state and data of the user cleared.  So no later attempt,
\* mark-all, module completion or /start changes a stored result.
C13_ResultsAppendOnly ==
    [][\A u \in Users :
          LET old == ResultsOf(u)
              new == ResultsOf(u)'
              finished == /\ last'.user = u
                          /\ last'.handler \in FinishHandlers
                          /\ last'.replies # <<>>
                          /\ last'.replies[Len(last'.replies)] = "summary"
          IN /\ HasProgress(u) => HasProgress(u)'
             /\ Len(new) >= Len(old)
             /\ SubSeq(new, 1, Len(old)) = old
             /\ finished <=> Len(new) = Len(old) + 1
             /\ ~finished => new = old
             /\ finished => /\ fsm_state'[u] = "none"
                            /\ fsm_data'[u] = EmptyData
                            /\ fsm_state[u] = "taking_test"]_vars

\* the learner has marked all modules and has ended a second run: two results are stored
C13_Witness ==
    /\ last.user = Learner /\ last.handler \in FinishHandlers
    /\ HasProgress(Learner)
    /\ Len(user_progress[Learner].test_results) = 2
    /\ user_progress[Learner].test_results[1] # user_progress[Learner].test_results[2]
    /\ Len(user_progress[Learner].completed_modules) = NumModules
    /\ fsm_state[Learner] = "none"

\* C14 (as stated): for a user with access and a progress record with fewer
\* than NumModules completed modules, "📝 Пройти тест все равно" leaves the
\* user in taking_test at question index 0 with no answer recorded, and
\* raises nothing.
C14_TestAnywayStarts ==
    \A u \in Users :
        (/\ has_access(Store, u).ok
         /\ HasProgress(u)
         /\ Len(user_progress[u].completed_modules) < NumModules)
        => LET out == take_test_anyway(Store, u, Session(u))
           IN /\ ~out.raised
              /\ out.state = "taking_test"
              /\ "test_data" \in out.data.keys
              /\ out.data.test_data.current_question = 0
              /\ \A q \in QuestionIds : out.data.test_data.answers[q] = "none"

\* C15 (as stated): a user in taking_test stays in taking_test in every step
\* except the steps that end the run, which append its result and leave the
\* state cleared; and in taking_test every answer letter is routed to
\* handle_test_answer.
C15_RunEndsOnlyByFinishing ==
    [][\A u \in Users :
          fsm_state[u] = "taking_test" =>
              /\ \A l \in Letters :
                    Dispatch(fsm_state[u], Msg("letter", FALSE, <<>>, l)) = "handle_test_answer"
              /\ \/ fsm_state'[u] = "taking_test"
                 \/ /\ fsm_state'[u] = "none"
                    /\ last'.user = u /\ last'.handler \in FinishHandlers
                    /\ Len(ResultsOf(u)') = Len(ResultsOf(u)) + 1]_vars

\* C16: /start gives a user without a progress record a new one, with no
\* completed module, no audio listened, no quiz attempt and last_module 0;
\* for a user who has a record it leaves every field of the record as it is.
C16_StartCreatesOrKeeps ==
    \A u \in Users :
        LET s == Session(u)
            out == cmd_start(Store, u, s)
        IN /\ out.has /\ ~out.raised
           /\ s.has => out.progress = s.progress
           /\ ~s.has =>
                /\ out.progress.fields =
                      {"start_date", "completed_modules", "last_module", "name", "username",
                       "audio_listened", "test_results"}
                /\ out.progress.completed_modules = <<>>
                /\ out.progress.audio_listened = <<>>
                /\ out.progress.test_results = <<>>
                /\ out.progress.last_module = 0

\* the learner has sent /start with completed modules and a quiz result in the record
C16_Witness ==
    /\ last.user = Learner /\ last.handler = "cmd_start"
    /\ HasProgress(Learner)
    /\ user_progress[Learner].completed_modules # <<>>
    /\ user_progress[Learner].test_results # <<>>

----------------------------------------------------------------------------
(* Navigation through the lessons: one learner                             *)

NavMsgs ==
    {Btn(t) : t \in {"/start", "lesson0", "lesson3", "btn_prev", "btn_next"}}

NextNav ==
    \E m \in NavMsgs :
        \/ AccessDenied(Learner, m)
        \/ CmdStart(Learner, m)
        \/ \E audio_sent \in BOOLEAN :
              \/ HandleLessonSelection(Learner, m, audio_sent)
              \/ HandlePrevLesson(Learner, m, audio_sent)
              \/ HandleNextLesson(Learner, m, audio_sent)

SpecNav == Init /\ [][NextNav]_vars

\* C17: for every user with access and every module index i, viewing module i,
\* from the menu or by the previous and next buttons, records i as the user's
\* last module, whatever modules the user has completed.
C17_ViewSetsLastModule ==
    \A u \in Users : \A audio_sent \in BOOLEAN :
        has_access(Store, u).ok =>
            LET s == Session(u)
                cm == CurrentModule(s.data)
                prev == handle_prev_lesson(Store, u, s, audio_sent)
                next == handle_next_lesson(Store, u, s, audio_sent)
            IN /\ \A i \in 0..(NumModules - 1) :
                     LET out == show_module(Store, u, s, i, audio_sent)
                     IN /\ ~out.raised
                        /\ out.has
                        /\ "last_module" \in out.progress.fields
                        /\ out.progress.last_module = i
               /\ cm > 0 => prev.has /\ prev.progress.last_module = cm - 1
               /\ cm < NumModules - 1 => next.has /\ next.progress.last_module = cm + 1

\* C20: the next button moves one lesson forward up to the last lesson, where it
\* answers 'last lesson' and changes nothing; the previous button moves one lesson
\* back down to the first lesson, where it answers 'first lesson' and changes
\* nothing; the index of the lesson on view is always one of 0..NumModules-1.
C20_NavigationSaturates ==
    \A u \in Users : \A audio_sent \in BOOLEAN :
        LET s == Session(u)
            cm == CurrentModule(s.data)
            prev == handle_prev_lesson(Store, u, s, audio_sent)
            next == handle_next_lesson(Store, u, s, audio_sent)
        IN /\ cm \in 0..(NumModules - 1)
           /\ has_access(Store, u).ok =>
                /\ ~prev.raised /\ ~next.raised
                /\ IF cm < NumModules - 1
                   THEN /\ CurrentModule(next.data) = cm + 1
                        /\ next.state = "viewing_module"
                        /\ next.replies[1] = "module"
                   ELSE /\ next = Out(s, <<"last_lesson">>, FALSE)
                        /\ CurrentModule(next.data) = NumModules - 1
                /\ IF cm > 0
                   THEN /\ CurrentModule(prev.data) = cm - 1
                        /\ prev.state = "viewing_module"
                        /\ prev.replies[1] = "module"
                   ELSE /\ prev = Out(s, <<"first_lesson">>, FALSE)
                        /\ CurrentModule(prev.data) = 0

\* the learner, on the last lesson, has pressed the next button and stays there
C20_Witness ==
    /\ last.user = Learner /\ last.handler = "handle_next_lesson"
    /\ last.replies = <<"last_lesson">>
    /\ fsm_state[Learner] = "viewing_module"
    /\ CurrentModule(fsm_data[Learner]) = NumModules - 1

\* C18: completing the module on view for the first time inserts its number
\* (index + 1) into the completed modules and reports it newly completed;
\* completing it again reports it already completed and leaves the completed
\* modules unchanged.
C18_CompleteIdempotent ==
    \A u \in Users :
        has_access(Store, u).ok =>
            LET s == Session(u)
                module_num == CurrentModule(s.data) + 1
                old == IF s.has THEN s.progress.completed_modules ELSE <<>>
                first == handle_complete_lesson(s)
                again == handle_complete_lesson([state |-> first.state, data |-> first.data,
                                                 has |-> first.has, progress |-> first.progress])
            IN /\ ~first.raised /\ ~again.raised
               /\ first.has
               /\ IF Contains(old, module_num)
                  THEN /\ first.replies = <<"already_completed">>
                       /\ first.progress.completed_modules = old
                  ELSE /\ first.replies[1] = "marked_completed"
                       /\ first.progress.completed_modules = Append(old, module_num)
               /\ again.replies = <<"already_completed">>
               /\ again.progress.completed_modules = first.progress.completed_modules

\* C19: marking all modules leaves the user with a record whose completed
\* modules are exactly 1..NumModules, creating the record if there was none, and
\* changes neither the stored quiz results, nor the last module, nor the state of
\* a quiz in progress.
C19_MarkAllCompletes ==
    \A u \in Users :
        has_access(Store, u).ok =>
            LET s == Session(u)
                out == handle_mark_all_modules(s)
            IN /\ ~out.raised
               /\ out.has
               /\ "completed_modules" \in out.progress.fields
               /\ out.progress.completed_modules = [i \in 1..NumModules |-> i]
               /\ out.progress.test_results = s.progress.test_results
               /\ out.progress.last_module = s.progress.last_module
               /\ s.has => ("last_module" \in out.progress.fields <=> "last_module" \in s.progress.fields)
               /\ s.has => ("test_results" \in out.progress.fields <=> "test_results" \in s.progress.fields)
               /\ out.state = s.state
               /\ out.data = s.data

\* the learner, with a stored quiz result and a second quiz in progress, has
\* marked all modules
C19_Witness ==
    /\ last.user = Learner /\ last.handler = "handle_mark_all_modules"
    /\ fsm_state[Learner] = "taking_test"
    /\ HasProgress(Learner)
    /\ user_progress[Learner].test_results # <<>>
    /\ user_progress[Learner].completed_modules = [i \in 1..NumModules |-> i]

----------------------------------------------------------------------------
(* The progress record under every handler that writes it: one learner     *)

ProgressMsgs ==
    {Btn(t) : t \in {"/start", "lesson1", "btn_prev", "btn_complete", "btn_mark_all",
                     "btn_my_progress", "btn_start_test", "btn_finish_test"}}

NextProgress ==
    \E m \in ProgressMsgs :
        \/ AccessDenied(Learner, m)
        \/ CmdStart(Learner, m)
        \/ \E audio_sent \in BOOLEAN :
              \/ HandleLessonSelection(Learner, m, audio_sent)
              \/ HandlePrevLesson(Learner, m, audio_sent)
        \/ HandleCompleteLesson(Learner, m)
        \/ HandleMarkAllModules(Learner, m)
        \/ HandleMyProgress(Learner, m)
        \/ HandleStartTest(Learner, m, MaxAttempts)
        \/ HandleFinishTestEarly(Learner, m)

SpecProgress == Init /\ [][NextProgress]_vars

----------------------------------------------------------------------------
(* The access store and its file, with failing writes and restarts         *)

\* AccessManager.__init__ that takes the admins from the environment only after
\* a successful load
AccessManagerInit_admins_after_load(file, env_admins) ==
    [paid_users |-> load_data(file),
     admin_ids |-> IF file.kind = "json" THEN env_admins ELSE {},
     paid_file |-> file]

\* AccessManager.__init__ in a process whose ADMIN_IDS names env_admins
AccessManagerInit(file, env_admins) ==
    [paid_users |-> load_data(file), admin_ids |-> env_admins, paid_file |-> file]

\* how a process ends: run_bot_with_retries saves paid_users on its way out
\* (io tells what that write does), or the process is killed and saves nothing
ExitOutcomes == IoOutcomes \cup {"killed"}

\* the process ends and a new one starts with the same environment: the access
\* store is built from the file, user_progress and the FSM storage start empty
Restart(exit) ==
    LET left == IF exit = "killed" THEN paid_file ELSE save_data(paid_file, paid_users, exit)
    IN /\ SetStore(AccessManagerInit(left, admin_ids))
       /\ UNCHANGED clock
       /\ user_progress' = [x \in {} |-> NewProgress(0)]
       /\ fsm_state' = [u \in Users |-> "none"]
       /\ fsm_data' = [u \in Users |-> EmptyData]
       /\ last' = [user |-> 0, handler |-> "restart", replies |-> <<>>, raised |-> FALSE]
       /\ restart_count' = 0 /\ shutdown_flag' = FALSE /\ loop_pc' = "while"
       /\ http_bound' = FALSE /\ broadcast_task' = NoTask

PersistMsgs ==
    {Msg("/grant_id", TRUE, <<u>>, "") : u \in Users}
    \cup {Msg("/revoke", TRUE, <<>>, n) : n \in {"alice", "carol"}}

NextPersist ==
    \/ \E u \in Users, m \in PersistMsgs, io \in IoOutcomes :
        \/ AccessDenied(u, m)
        \/ \E n \in ChatNames : CmdGrantId(u, m, n, io)
        \/ CmdRevoke(u, m, io)
    \/ \E exit \in ExitOutcomes : Restart(exit)

SpecPersist == Init /\ [][NextPersist]_vars

\* C22: a grant or a revoke that returns True and whose write succeeds leaves
\* paid_users.json holding exactly the paid_users of the memory; a grant or a
\* revoke that returns False writes nothing and changes nothing.
C22_SuccessfulWriteMirrors ==
    \A target \in Users, a \in Users, n \in ChatNames, io \in IoOutcomes :
        LET g == grant_access_by_id(Store, target, a, n, clock, io)
            r == revoke_access(Store, target, io)
            Mirrors(st) == /\ st.paid_file = JsonFile(json_dump(st.paid_users))
                           /\ load_data(st.paid_file) = st.paid_users
        IN /\ (g.ret /\ io = "ok") => Mirrors(g.st)
           /\ (r.ret /\ io = "ok") => Mirrors(r.st)
           /\ ~g.ret => g.st = Store
           /\ ~r.ret => r.st = Store

\* an admin has granted two users in this run, the second one just now, and the
\* file holds both
C22_Witness ==
    /\ last.handler = "cmd_grant_id" /\ last.replies = <<"grant_ok">>
    /\ Len(paid_users) = 2
    /\ paid_file = JsonFile(json_dump(paid_users))
    /\ paid_users[1].granted_date > 0

C24_FailedWriteKeepsMemory ==
    \A target \in Users, a \in Users, n \in ChatNames, io \in IoOutcomes \ {"ok"} :
        LET g == grant_access_by_id(Store, target, a, n, clock, io)
            r == revoke_access(Store, target, io)
        IN /\ ~InGranted(Store, target) =>
                /\ g.ret
                /\ g.st.paid_users = grant_access_by_id(Store, target, a, n, clock, "ok").st.paid_users
                /\ InGranted(g.st, target)
                /\ has_access(g.st, target).ok
                /\ GrantById(Store, a, target, n, clock, io).reply = "grant_ok"
           /\ InGranted(Store, target) =>
                /\ r.ret
                /\ r.st.paid_users = revoke_access(Store, target, "ok").st.paid_users
                /\ ~InGranted(r.st, target)
                /\ has_access(r.st, target).ok <=> is_admin(Store, target)
                /\ RevokeById(Store, target, io).reply = "revoke_ok"

\* an admin has been told that the grant succeeded, the user has access, and the
\* file does not hold the user
C24_Witness ==
    /\ last.handler = "cmd_grant_id" /\ last.replies = <<"grant_ok">>
    /\ \E u \in Users :
          /\ ~is_admin(Store, u)
          /\ has_access(Store, u).ok
          /\ Str(u) \notin Keys(load_data(paid_file))

\* the files that load_data cannot read as JSON
BrokenFiles == {NoFile, BadFile, UnreadableFile}

\* C25: with paid_users.json missing, unreadable or not valid JSON, the
\* AccessManager starts with empty paid_users, and the admins named by the
\* environment have access.
C25_BrokenFileStartsEmpty ==
    \A file \in BrokenFiles :
        LET st == AccessManagerInit(file, admin_ids)
        IN /\ st.paid_users = <<>>
           /\ \A u \in Users : has_access(st, u).ok <=> u \in admin_ids
           /\ \A u \in admin_ids : has_access(st, u) = [ok |-> TRUE, type |-> "admin"]

\* a process has started from a file that a failed write had truncated: nobody
\* is granted, the admin has access
C25_Witness ==
    /\ last.handler = "restart"
    /\ paid_file = BadFile
    /\ paid_users = <<>>
    /\ admin_ids # {}
    /\ \A u \in admin_ids : has_access(Store, u).ok

----------------------------------------------------------------------------
(* Texts that are no command and no button, in every FSM state             *)

\* texts of the user's own: plain, after the emoji of the first module, and an
\* unknown command
UnknownMsgs == {Btn("text"), Btn("text_books"), Btn("/unknown")}

FallbackMsgs ==
    UnknownMsgs
    \cup {Btn(t) : t \in {"/start", "/admin", "btn_grant", "btn_revoke",
                          "lesson1", "btn_start_test"}}

NextFallback ==
    \E u \in Actors, m \in FallbackMsgs :
        \/ AccessDenied(u, m)
        \/ CmdStart(u, m)
        \/ CmdAdmin(u, m)
        \/ HandleGrantAccess(u, m)
        \/ \E n \in ChatNames : ProcessGrantAccess(u, m, n, "ok")
        \/ HandleRevokeAccess(u, m)
        \/ ProcessRevokeAccess(u, m, "ok")
        \/ \E audio_sent \in BOOLEAN : HandleLessonSelection(u, m, audio_sent)
        \/ HandleStartTest(u, m, MaxAttempts)
        \/ HandleOtherMessages(u, m)

SpecFallback == Init /\ [][NextFallback]_vars

\* the FSM states in which an admin is asked to type an id or a user name
InputStates == {"admin_grant_access", "admin_revoke_access"}

\* the update reaches handle_other_messages, which sends the fallback help and
\* changes nothing
FallsBack(u, m) ==
    /\ Dispatch(fsm_state[u], m) = "handle_other_messages"
    /\ handle_other_messages(Store, u, Session(u), m) = Out(Session(u), <<"fallback_help">>, FALSE)

\* C26 as stated: in every FSM state, every text of a user with access that is
\* no command and no button label is answered with the fallback help and
\* changes nothing.
C26_Original ==
    \A u \in Users : has_access(Store, u).ok => \A m \in UnknownMsgs : FallsBack(u, m)

\* C26: a text of a user with access that is no command and no button label and
\* does not start with the emoji of a module is answered with the fallback help,
\* changes no access, progress or FSM state and raises nothing, in every FSM
\* state but the two in which an admin is asked to type an id or a user name.
C26_FallbackHelp ==
    \A u \in Users : has_access(Store, u).ok =>
        \A m \in UnknownMsgs :
            (fsm_state[u] \notin InputStates
             /\ LeadEmoji(m) \notin {MODULES[i] : i \in 1..NumModules})
                => FallsBack(u, m)

\* a user in the middle of a quiz has sent a text of their own and got the
\* fallback help; the quiz is still in progress
C26_Witness ==
    /\ last.handler = "handle_other_messages"
    /\ last.replies = <<"fallback_help">>
    /\ last.user \in Users
    /\ fsm_state[last.user] = "taking_test"

----------------------------------------------------------------------------
(* /broadcast                                                              *)

\* cmd_broadcast; blocked are the users to whom bot.send_message fails.
\* attempts are the ids bot.send_message was called with, in order.
cmd_broadcast(st, u, m, blocked) ==
    LET none == [attempts |-> <<>>, sent |-> 0, failed |-> 0]
    IN IF ~is_admin(st, u)
       THEN [replies |-> <<"no_admin_rights">>, raised |-> FALSE, sends |-> none]
       ELSE IF ~m.has_args
       THEN [replies |-> <<"usage">>, raised |-> FALSE, sends |-> none]
       ELSE LET total_users == Len(st.paid_users)
                attempts == [i \in DOMAIN st.paid_users |-> IntOfKey(st.paid_users[i].key)]
                sent == Cardinality({i \in DOMAIN attempts : attempts[i] \notin blocked})
                failed == Cardinality({i \in DOMAIN attempts : attempts[i] \in blocked})
                sends == [attempts |-> attempts, sent |-> sent, failed |-> failed]
            IN IF total_users = 0
               THEN \* the f-string of the report evaluates sent/total_users*100:
                    \* ZeroDivisionError
                    [replies |-> <<"broadcast_start">>, raised |-> TRUE, sends |-> sends]
               ELSE [replies |-> <<"broadcast_start", "broadcast_done", Str(sent), Str(failed)>>,
                     raised |-> FALSE, sends |-> sends]

CmdBroadcast(u, m, blocked) ==
    /\ Routed(u, m, "cmd_broadcast")
    /\ LET out == cmd_broadcast(Store, u, m, blocked)
       IN Replies(u, "cmd_broadcast", out.replies, out.raised)

BroadcastMsgs ==
    {Btn("/broadcast"), Msg("/broadcast", TRUE, <<>>, "")}
    \cup {Msg("/grant_id", TRUE, <<u>>, "") : u \in Users}
    \cup {Msg("/revoke", TRUE, <<>>, "alice")}

NextBroadcast ==
    \E u \in Users, m \in BroadcastMsgs :
        \/ AccessDenied(u, m)
        \/ \E n \in ChatNames : CmdGrantId(u, m, n, "ok")
        \/ CmdRevoke(u, m, "ok")
        \/ \E blocked \in SUBSET Users : CmdBroadcast(u, m, blocked)

SpecBroadcast == Init /\ [][NextBroadcast]_vars

\* C27: /broadcast of an admin calls bot.send_message once for every user of
\* paid_users, counts a failed delivery and goes on, and ends with the report to
\* the admin, in which sent + failed is the number of recipients; this for every
\* size of paid_users, zero included.
C27_BroadcastReports ==
    \A u \in admin_ids : \A blocked \in SUBSET Users :
        LET out == cmd_broadcast(Store, u, Msg("/broadcast", TRUE, <<>>, ""), blocked)
            attempts == out.sends.attempts
        IN /\ Len(attempts) = Len(paid_users)
           /\ \A k \in Keys(paid_users) :
                 Cardinality({i \in DOMAIN attempts : Str(attempts[i]) = k}) = 1
           /\ out.sends.failed = Cardinality({k \in Keys(paid_users) : IntOfKey(k) \in blocked})
           /\ out.sends.sent + out.sends.failed = Len(paid_users)
           /\ ~out.raised
           /\ Len(out.replies) = 4
           /\ out.replies[2] = "broadcast_done"
           /\ out.replies[3] = Str(out.sends.sent)
           /\ out.replies[4] = Str(out.sends.failed)

----------------------------------------------------------------------------
(* Two users in the course at the same time                                *)

PartitionMsgs ==
    {Btn(t) : t \in {"lesson1", "btn_complete", "btn_start_test", "btn_finish_test",
                     "/admin", "btn_stats"}}
    \cup {Msg("/userinfo", TRUE, <<>>, "alice")}

NextPartition ==
    \E u \in Actors, m \in PartitionMsgs :
        \/ AccessDenied(u, m)
        \/ \E audio_sent \in BOOLEAN : HandleLessonSelection(u, m, audio_sent)
        \/ HandleCompleteLesson(u, m)
        \/ HandleStartTest(u, m, MaxAttempts)
        \/ HandleFinishTestEarly(u, m)
        \/ CmdAdmin(u, m)
        \/ HandleAdminStats(u, m)
        \/ CmdUserinfo(u, m)
        \/ HandleOtherMessages(u, m)

SpecPartition == Init /\ [][NextPartition]_vars

\* the handlers of the course and of the quiz
CourseHandlers ==
    {"cmd_start", "handle_lesson_selection", "handle_prev_lesson", "handle_next_lesson",
     "handle_listen_audio", "handle_complete_lesson", "handle_mark_all_modules",
     "handle_start_test", "handle_test_answer", "handle_skip_question",
     "handle_finish_test_early"}

\* the administrative handlers that read user_progress
AdminReads == {"cmd_userinfo", "handle_admin_stats"}

----------------------------------------------------------------------------
(* run_bot_with_retries.  loop_pc is "while" at the test of the loop,      *)
(* "startup" in the checks and the start of the HTTP server, "get_me" at   *)
(* bot.get_me, "polling" in dp.start_polling, "leave" after the loop and   *)
(* "done" when the function or the process has ended.                      *)

\* the loop test with <= for <
loop_continues_inclusive(flag, count) == ~flag /\ count <= max_restarts

\* not shutdown_flag and restart_count < max_restarts
loop_continues(flag, count) == ~flag /\ count < max_restarts

\* the handlers' variables, which the loop does not touch
LoopFrame ==
    UNCHANGED <<admin_ids, paid_users, clock, user_progress, fsm_state, fsm_data, last,
                broadcast_task>>

\* while not shutdown_flag and restart_count < max_restarts
WhileTest ==
    /\ loop_pc = "while"
    /\ loop_pc' = IF loop_continues(shutdown_flag, restart_count) THEN "startup" ELSE "leave"
    /\ UNCHANGED <<restart_count, shutdown_flag, paid_file, http_bound>> /\ LoopFrame

\* except Exception of the outer try: count, then sleep and go on, or break
UnexpectedError ==
    /\ restart_count' = restart_count + 1
    /\ loop_pc' = IF loop_continues(shutdown_flag, restart_count + 1) THEN "while" ELSE "leave"

\* start_http_server: site.start() binds PORT; the runner of an earlier call is
\* never cleaned up, so PORT is still held and the bind raises OSError
start_http_server(bound) == [raised |-> bound, bound |-> TRUE]

\* check_audio_files, check_checklist_file (ok: neither raises), start_http_server
Startup(ok) ==
    /\ loop_pc = "startup"
    /\ LET srv == start_http_server(http_bound)
       IN IF ~ok
          THEN UnexpectedError /\ UNCHANGED http_bound
          ELSE /\ http_bound' = srv.bound
               /\ IF srv.raised
                  THEN UnexpectedError
                  ELSE loop_pc' = "get_me" /\ UNCHANGED restart_count
    /\ UNCHANGED <<shutdown_flag, paid_file>> /\ LoopFrame

\* bot.get_me(); on failure count, sleep unless shutdown_flag, continue
GetMe(ok) ==
    /\ loop_pc = "get_me"
    /\ IF ok
       THEN loop_pc' = "polling" /\ UNCHANGED restart_count
       ELSE loop_pc' = "while" /\ restart_count' = restart_count + 1
    /\ UNCHANGED <<shutdown_flag, paid_file, http_bound>> /\ LoopFrame

\* how dp.start_polling ends
PollingEnds == {"cancelled", "exception", "returned"}

Polling(end) ==
    /\ loop_pc = "polling"
    /\ CASE end = "cancelled" -> loop_pc' = "leave" /\ UNCHANGED restart_count
         [] end = "exception" -> UnexpectedError
         [] OTHER -> loop_pc' = "while" /\ UNCHANGED restart_count
    /\ UNCHANGED <<shutdown_flag, paid_file, http_bound>> /\ LoopFrame

\* after the loop: access_manager.save_data("paid_users", ...), close the session
Leave(io) ==
    /\ loop_pc = "leave"
    /\ paid_file' = save_data(paid_file, paid_users, io)
    /\ loop_pc' = "done"
    /\ UNCHANGED <<restart_count, shutdown_flag, http_bound>> /\ LoopFrame

\* signal_handler on SIGTERM or SIGINT
Signal ==
    /\ loop_pc # "done"
    /\ shutdown_flag' = TRUE
    /\ UNCHANGED <<restart_count, loop_pc, paid_file, http_bound>> /\ LoopFrame

\* the task shutdown() that signal_handler creates: save_data, stop_polling,
\* close the session, sys.exit(0)
Shutdown(io) ==
    /\ shutdown_flag /\ loop_pc # "done"
    /\ paid_file' = save_data(paid_file, paid_users, io)
    /\ loop_pc' = "done"
    /\ UNCHANGED <<restart_count, shutdown_flag, http_bound>> /\ LoopFrame

LoopStep ==
    \/ WhileTest
    \/ \E ok \in BOOLEAN : Startup(ok) \/ GetMe(ok)
    \/ \E io \in IoOutcomes : Leave(io)

NextRetry ==
    \/ LoopStep
    \/ \E end \in PollingEnds : Polling(end)
    \/ Signal
    \/ \E io \in IoOutcomes : Shutdown(io)

\* the loop goes on when it can, and the task that a signal creates runs
SpecRetry ==
    /\ Init /\ [][NextRetry]_vars
    /\ WF_vars(LoopStep)
    /\ WF_vars(\E io \in IoOutcomes : Shutdown(io))

\* C29: restart_count stays within 0..max_restarts and never decreases; once
\* shutdown is requested or restart_count has reached max_restarts,
\* run_bot_with_retries ends; and it ends with a save of paid_users.
C29_BoundedRetries ==
    /\ [](restart_count \in 0..max_restarts)
    /\ [][/\ restart_count' >= restart_count
          /\ (loop_pc # "done" /\ loop_pc' = "done") =>
                \E io \in IoOutcomes : paid_file' = save_data(paid_file, paid_users, io)]_vars
    /\ (shutdown_flag \/ restart_count = max_restarts) ~> (loop_pc = "done")

\* the function has ended after max_restarts failures, with no shutdown asked for
C29_Witness ==
    /\ loop_pc = "done"
    /\ restart_count = max_restarts
    /\ ~shutdown_flag

\* C30: every record of user_progress holds start_date, completed_modules,
\* last_module, audio_listened and test_results, whichever handler created it;
\* so 'My progress' and 'mark completed' of a user with access never raise.
C30_RecordsComplete ==
    \A u \in Users :
        has_access(Store, u).ok =>
            /\ HasProgress(u) =>
                  {"start_date", "completed_modules", "last_module", "audio_listened",
                   "test_results"} \subseteq user_progress[u].fields
            /\ ~handle_my_progress(Session(u)).raised
            /\ ~handle_complete_lesson(Session(u)).raised

\* C31: an iteration of the retry loop that follows a failed attempt, after which
\* the HTTP server of the earlier iteration still holds PORT, gets past
\* start_http_server and so can reach bot.get_me and polling again.
C31_RetryRecovers ==
    (loop_pc = "startup" /\ restart_count > 0 /\ http_bound) =>
        ~start_http_server(http_bound).raised

----------------------------------------------------------------------------
(* /broadcast as it runs: polling handles every update in a task of its    *)
(* own, and cmd_broadcast gives up control at each await of its loop, so   *)
(* other handlers run between two deliveries.  broadcast_task holds the    *)
(* locals of the suspended call: total_users, sent, failed, and the        *)
(* iterator over access_manager.paid_users.keys() as di_used (the size of  *)
(* the dict when the iterator was made) and di_pos (the keys it has        *)
(* passed); started and attempts record the keys at the start and the      *)
(* keys bot.send_message was called with.                                  *)

\* cmd_broadcast up to its first await: the checks, total_users, the counters
\* and the 'starting' answer
cmd_broadcast_begin(st, u) ==
    [active |-> TRUE, admin |-> u, pc |-> "answer",
     total_users |-> Len(st.paid_users), sent |-> 0, failed |-> 0,
     di_used |-> 0, di_pos |-> 0,
     started |-> Keys(st.paid_users), attempts |-> <<>>]

\* next() of the dict key iterator raises RuntimeError (dictionary changed size
\* during iteration) when len(dict) is not the size the iterator was made with
dict_changed_size(task, st) == Len(st.paid_users) # task.di_used

\* cmd_broadcast from an await to the next one: the for statement asks the
\* iterator for the next key (making the iterator first, when the call comes
\* back from the 'starting' answer), then either sends to that key and counts,
\* or leaves the loop and answers with the report, or raises
cmd_broadcast_resume(task, st, send_ok) ==
    LET it == IF task.pc = "answer"
              THEN [task EXCEPT !.pc = "loop", !.di_used = Len(st.paid_users)]
              ELSE task
    IN IF dict_changed_size(it, st)
       THEN [task |-> NoTask, replies |-> <<>>, raised |-> TRUE]
       ELSE IF it.di_pos >= Len(st.paid_users)
       THEN IF it.total_users = 0
            THEN [task |-> NoTask, replies |-> <<>>, raised |-> TRUE]
            ELSE [task |-> NoTask,
                  replies |-> <<"broadcast_done", Str(it.sent), Str(it.failed)>>,
                  raised |-> FALSE]
       ELSE [task |-> [it EXCEPT !.di_pos = it.di_pos + 1,
                                 !.sent = IF send_ok THEN it.sent + 1 ELSE it.sent,
                                 !.failed = IF send_ok THEN it.failed ELSE it.failed + 1,
                                 !.attempts = Append(it.attempts,
                                                     st.paid_users[it.di_pos + 1].key)],
             replies |-> <<>>, raised |-> FALSE]

\* what a step of the broadcast leaves alone
BroadcastFrame ==
    /\ SameStore /\ SameFsm
    /\ UNCHANGED <<user_progress, restart_count, shutdown_flag, loop_pc, http_bound>>

\* /broadcast is delivered; one call of cmd_broadcast runs at a time
BroadcastStart(u, m) ==
    /\ Routed(u, m, "cmd_broadcast")
    /\ ~broadcast_task.active
    /\ IF is_admin(Store, u) /\ m.has_args
       THEN /\ broadcast_task' = cmd_broadcast_begin(Store, u)
            /\ last' = [user |-> u, handler |-> "cmd_broadcast",
                        replies |-> <<"broadcast_start">>, raised |-> FALSE]
            /\ BroadcastFrame
       ELSE LET out == cmd_broadcast(Store, u, m, {})
            IN Replies(u, "cmd_broadcast", out.replies, out.raised)

\* the suspended call goes on to its next await or to its end
BroadcastResume(send_ok) ==
    /\ broadcast_task.active
    /\ LET out == cmd_broadcast_resume(broadcast_task, Store, send_ok)
       IN /\ broadcast_task' = out.task
          /\ last' = [user |-> broadcast_task.admin, handler |-> "cmd_broadcast",
                      replies |-> out.replies, raised |-> out.raised]
    /\ BroadcastFrame

\* at most one update is handled during one suspension of the broadcast
OneUpdate == broadcast_task.active => last.handler = "cmd_broadcast"

SuspendMsgs ==
    {Msg("/broadcast", TRUE, <<>>, "")}
    \cup {Msg("/grant_id", TRUE, <<u>>, "") : u \in Users}
    \cup {Msg("/revoke", TRUE, <<>>, "alice")}

NextSuspended ==
    \/ \E u \in Users, m \in SuspendMsgs :
          \/ AccessDenied(u, m)
          \/ OneUpdate /\ \E n \in ChatNames : CmdGrantId(u, m, n, "ok")
          \/ OneUpdate /\ CmdRevoke(u, m, "ok")
          \/ BroadcastStart(u, m)
    \/ \E send_ok \in BOOLEAN : BroadcastResume(send_ok)

SpecSuspended == Init /\ [][NextSuspended]_vars

\* C32: a broadcast to one or more users that has made a delivery ends with its
\* report to the admin
\* and has called bot.send_message for every user who was in paid_users when it
\* started, whatever grants and revokes were handled while it was suspended.
C32_BroadcastSurvives ==
    [][(/\ broadcast_task.active /\ ~broadcast_task'.active
        /\ broadcast_task.total_users > 0 /\ broadcast_task.di_pos > 0) =>
          /\ ~last'.raised
          /\ last'.replies # <<>> /\ last'.replies[1] = "broadcast_done"
          /\ broadcast_task.started \subseteq
                {broadcast_task.attempts[i] : i \in DOMAIN broadcast_task.attempts}]_vars

----------------------------------------------------------------------------
(* The buttons of the main menu and of the quiz warning *)

MenuMsgs ==
    {Btn(t) : t \in {"/start", "lesson1", "btn_course_menu", "btn_test_results",
                     "btn_return_study", "btn_start_test", "btn_finish_test",
                     "/unknown"}}

NextMenu ==
    \E m \in MenuMsgs :
        \/ AccessDenied(Learner, m)
        \/ CmdStart(Learner, m)
        \/ HandleCourseMenu(Learner, m)
        \/ \E audio_sent \in BOOLEAN : HandleLessonSelection(Learner, m, audio_sent)
        \/ HandleStartTest(Learner, m, MaxAttempts)
        \/ HandleFinishTestEarly(Learner, m)
        \/ HandleOtherMessages(Learner, m)

SpecMenu == Init /\ [][NextMenu]_vars

\* what the handler that the dispatcher picks for a button does to the session
ButtonOutcome(u, m) ==
    LET h == Dispatch(fsm_state[u], m)
        s == Session(u)
    IN CASE h = "handle_lesson_selection" ->
               show_module(Store, u, s, SelectedModule(m), TRUE)
         [] h = "handle_test_results" ->
               Out(s, IF ~s.has THEN <<"no_tests_yet">>
                      ELSE IF s.progress.test_results = <<>> THEN <<"no_results">>
                      ELSE <<"last_result">>, FALSE)
         [] OTHER -> handle_other_messages(Store, u, s, m)

\* C33: for a user with access who is not typing an id for an admin flow,
\* '🏆 Результаты теста' runs handle_test_results, which answers with the latest
\* result or with 'no results yet' and leaves the FSM state, the FSM data and the
\* progress record (last_module included) as they are; and '📚 Вернуться к
\* обучению' answers with the course menu and changes nothing either.
C33_MenuButtons ==
    \A u \in Users :
        (MiddlewarePasses(Store, u, Btn("btn_test_results")) /\ fsm_state[u] \notin InputStates)
        => LET results == ButtonOutcome(u, Btn("btn_test_results"))
               study == ButtonOutcome(u, Btn("btn_return_study"))
               same(out) == /\ out.state = fsm_state[u] /\ out.data = fsm_data[u]
                            /\ out.progress = Session(u).progress
           IN /\ Dispatch(fsm_state[u], Btn("btn_test_results")) = "handle_test_results"
              /\ results.replies[1] \in {"no_tests_yet", "no_results", "last_result"}
              /\ same(results)
              /\ study.replies = handle_course_menu_replies
              /\ same(study)

\* C34: '✅ Отметить пройденным' of a user who has no module open (the FSM data
\* holds no current_module: nothing was opened since the data was last cleared)
\* is answered with 'you are not in a lesson', and creates no progress record
\* and leaves completed_modules as it is.
C34_CompleteNeedsLesson ==
    \A u \in Users :
        (/\ MiddlewarePasses(Store, u, Btn("btn_complete"))
         /\ Dispatch(fsm_state[u], Btn("btn_complete")) = "handle_complete_lesson"
         /\ "current_module" \notin fsm_data[u].keys)
        => LET out == handle_complete_lesson(Session(u))
           IN /\ out.replies = <<"not_in_lesson">>
              /\ out.has = HasProgress(u)
              /\ out.progress = Session(u).progress

\* C35: for every user with a progress record who has viewed a module (a module
\* is open in the FSM data, or the record's last_module is past the first one),
\* the index that previous, next, listen and mark completed read from the FSM
\* data is the record's last_module.
C35_CurrentIsLast ==
    \A u \in Users :
        (/\ HasProgress(u) /\ "last_module" \in user_progress[u].fields
         /\ ("current_module" \in fsm_data[u].keys \/ user_progress[u].last_module > 0))
        => CurrentModule(fsm_data[u]) = user_progress[u].last_module

----------------------------------------------------------------------------
(* The way to ask for access: the commands open to everybody and the       *)
(* keyboard sent with the access-restricted message                        *)

RequestMsgs ==
    {Btn(t) : t \in allowed_commands \cup {"btn_contact_admin", "btn_my_id", "btn_price"}}
    \cup {Msg("/grant_id", TRUE, <<Learner>>, ""), Msg("/revoke", TRUE, <<>>, "alice")}

NextRequest ==
    \E u \in Actors, m \in RequestMsgs :
        \/ AccessDenied(u, m)
        \/ CmdStart(u, m)
        \/ CmdHelp(u, m)
        \/ CmdSupport(u, m)
        \/ CmdContacts(u, m)
        \/ CmdMyid(u, m)
        \/ \E n \in ChatNames : CmdGrantId(u, m, n, "ok")
        \/ CmdRevoke(u, m, "ok")
        \/ HandleOtherMessages(u, m)

SpecRequest == Init /\ [][NextRequest]_vars

\* the answers to a text that no handler but the catch-all matches: those of
\* the middleware when it stops the update, else those of handle_other_messages
Answered(u, m) ==
    IF MiddlewarePasses(Store, u, m)
    THEN handle_other_messages(Store, u, Session(u), m).replies
    ELSE <<"access_restricted">>

\* C36: for a user who is neither an admin nor granted, /start, /help, /support,
\* /contacts and /myid pass the middleware and run their handlers, and the three
\* buttons of the access-restricted keyboard are answered with the support text,
\* the user's id and the price of the course.
C36_RequestPath ==
    \A u \in Users :
        (~is_admin(Store, u) /\ ~has_access(Store, u).ok) =>
            /\ \A c \in allowed_commands :
                  /\ MiddlewarePasses(Store, u, Btn(c))
                  /\ Dispatch(fsm_state[u], Btn(c)) =
                        (CASE c = "/start" -> "cmd_start" [] c = "/help" -> "cmd_help"
                           [] c = "/support" -> "cmd_support"
                           [] c = "/contacts" -> "cmd_contacts" [] OTHER -> "cmd_myid")
            /\ Answered(u, Btn("btn_contact_admin")) = cmd_support_replies(u)
            /\ Answered(u, Btn("btn_my_id")) = cmd_myid_replies
            /\ Answered(u, Btn("btn_price")) = <<"price">>

\* C37: for every user with access, with or without a progress record,
\* '📝 Пройти тест' with fewer than NumModules modules completed answers with the
\* incomplete-modules warning and leaves the FSM state and data as they are; with
\* all modules completed it starts the quiz at question 0.
C37_TestNeedsModules ==
    \A u \in Users :
        (/\ has_access(Store, u).ok
         /\ Dispatch(fsm_state[u], Btn("btn_start_test")) = "handle_start_test")
        => LET completed == IF HasProgress(u)
                            THEN Len(user_progress[u].completed_modules) ELSE 0
               out == handle_start_test(Store, u, Session(u))
           IN IF completed < NumModules
              THEN /\ out.replies = <<"modules_incomplete">>
                   /\ out.state = fsm_state[u] /\ out.data = fsm_data[u]
              ELSE /\ out.state = "taking_test"
                   /\ out.data.test_data.current_question = 0

----------------------------------------------------------------------------
(* The admin's list of users, for stores of up to MaxRoster users *)

\* the longest paid_users.json the process starts with here
MaxRoster == 12

\* a store of n users, granted in the order 1..n
Roster(n) ==
    [i \in 1..n |-> [key |-> Str(i), granted_date |-> 0, granted_by |-> 1,
                     username |-> "Alice", price |-> PricePerCourse]]

\* the start of the process with a paid_users.json of 0..MaxRoster users
InitRoster ==
    /\ admin_ids \in AdminChoices
    /\ paid_file \in {JsonFile(json_dump(Roster(n))) : n \in 0..MaxRoster}
    /\ paid_users = load_data(paid_file)
    /\ clock = 1
    /\ user_progress = [x \in {} |-> NewProgress(0)]
    /\ fsm_state = [u \in Users |-> "none"]
    /\ fsm_data = [u \in Users |-> EmptyData]
    /\ last = [user |-> 0, handler |-> "none", replies |-> <<>>, raised |-> FALSE]
    /\ restart_count = 0
    /\ shutdown_flag = FALSE
    /\ loop_pc = "while"
    /\ http_bound = FALSE
    /\ broadcast_task = NoTask

RosterMsgs ==
    {Btn("/admin"), Btn("btn_list_users"), Msg("/revoke", TRUE, <<>>, "alice")}
    \cup {Msg("/grant_id", TRUE, <<u>>, "") : u \in Users}

NextRoster ==
    \E u \in Actors, m \in RosterMsgs :
        \/ AccessDenied(u, m)
        \/ CmdAdmin(u, m)
        \/ HandleAdminUsers(u, m)
        \/ \E n \in ChatNames : CmdGrantId(u, m, n, "ok")
        \/ CmdRevoke(u, m, "ok")
        \/ HandleOtherMessages(u, m)

SpecRoster == InitRoster /\ [][NextRoster]_vars

\* C38: the admin's list of users shows the ListLimit users granted last (the
\* end of paid_users in insertion order) when more than ListLimit users have
\* access and all of them otherwise, and showing it leaves paid_users as it is.
C38_ListsLatest ==
    /\ [](\A u \in admin_ids :
            LET n == Len(paid_users)
                keys == [i \in DOMAIN paid_users |-> paid_users[i].key]
            IN handle_admin_users(Store, u).listed =
                  IF n > ListLimit THEN SubSeq(keys, n - ListLimit + 1, n) ELSE keys)
    /\ [][last'.handler = "handle_admin_users" => paid_users' = paid_users]_vars

====
